---- MODULE Spec2Model ----
(***************************************************************************)
(* A model of NextDevServer (src/src/frameworks/next-dev-server.ts): the   *)
(* legacy (/api/) handler execution in its unary and streaming variants,   *)
(* the transform cache, the request dispatcher with its prefix stripping,  *)
(* decision order and HTML shells, the pages-mode and app-mode route       *)
(* resolvers, the route-info endpoint, the web-style route handlers of     *)
(* the app router (handleAppRouteHandler), the file watchers that feed the *)
(* HMR notifier with their start / stop life cycle, the convention files   *)
(* (loading, error, not-found) of the app resolver, and the browser side   *)
(* of the app shell: the client Router of generateAppRouterHtml and the    *)
(* HMR client script.                                                      *)
(*                                                                         *)
(* Paths and env keys are sequences of characters, so that startsWith,     *)
(* slice and concatenation are computed, not assumed.                      *)
(***************************************************************************)
EXTENDS Integers, Sequences, FiniteSets, TLC

VARIABLES
    \* ---- one legacy-handler request (handleApiRoute / handleStreamingRequest)
    mode,       \* "unary" | "streaming": which entry point serves the request
    pc,         \* where the dispatcher is: idle, inHandler, awaitHandler, waitEnd, done
    promise,    \* what the handler returned: none | value | settles | never
    hlive,      \* the handler has been invoked (its callbacks may still run)
    ops,        \* the res method calls made so far, in order
    res,        \* the mock response object's closure state
    cb,         \* streaming: the calls made to onStart / onChunk / onEnd, in order
    timer,      \* the 30 s timeout: unset | armed | fired
    response,   \* unary: what handleApiRoute returned (NoResponse while pending)
    \* ---- the transform cache (transformAndServe)
    vfs,            \* the content of each source file
    transformCache, \* this.transformCache: file -> NoEntry or {code, hash}
    inflight,       \* the transformAndServe calls suspended at `await transformCode`
    lastResp,       \* per file, the latest transform response and what preceded it
    lastClean,      \* per file: no edit since the request of lastResp began
    dirty,          \* per file: edited since the last request for it began
    nEdit,          \* edits made so far
    nReq,           \* transform requests begun so far
    \* ---- the request dispatcher (handleRequest)
    project,        \* the project served: its files, directories and their entries
    useAppRouter,   \* this.useAppRouter
    assetPrefix,    \* this.assetPrefix
    basePath,       \* this.basePath
    env,            \* this.options.env: key -> value, Undefined when not set
    plain,          \* the latest request of a path with no prefix, and its reply
    last,           \* the latest request and its reply
    nSetEnv,        \* setEnv calls made so far
    listing,        \* the order in which vfs.readdirSync lists a directory
    resolved,       \* the latest route resolution: resolver, pathname, result
    \* ---- one web-style (route.<ext>) handler request (handleAppRouteHandler)
    areq,           \* its position, inputs, the VFS states it read, params, reply
    \* ---- the HMR notifier (startWatching / handleFileChange / stop)
    watch,          \* the watchers registered, the change events, the updates sent
    \* ---- the app shell in the browser (the scripts of generateAppRouterHtml)
    router,         \* the client Router: location, path, page, layouts, params, loads
    hmr             \* the HMR client: pending updates, timer, batch, applied updates

hvars == <<mode, pc, promise, hlive, ops, res, cb, timer, response>>

cvars == <<vfs, transformCache, inflight, lastResp, lastClean, dirty, nEdit, nReq>>

rvars == <<project, useAppRouter, assetPrefix, basePath, env, plain, last, nSetEnv,
          listing, resolved>>

avars == <<areq>>

wvars == <<watch>>

svars == <<router, hmr>>

vars == <<hvars, cvars, rvars, avars, wvars, svars>>

nonHandler == <<cvars, rvars, avars, wvars, svars>>

nonCache == <<hvars, rvars, avars, wvars, svars>>

nonRequest == <<hvars, cvars, avars, wvars, svars>>

(***************************************************************************)
(* Bounds of the model.                                                    *)
(***************************************************************************)
MaxOps == 3
MaxEdits == 2
MaxRequests == 3
MaxInflight == 2
MaxSetEnv == 1
MaxWrites == 1
MaxStarts == 1
MaxEvents == 2
MaxNavigations == 2
MaxUpdates == 3

(***************************************************************************)
(* Values.                                                                 *)
(***************************************************************************)
NoResponse == [statusCode |-> 0, headers |-> <<>>, body |-> <<>>]
NoHeader == "<absent>"
Undefined == "<undefined>"
HeaderNames == {"Content-Type", "Location", "X-Custom"}
ChunkData == {"A", "B"}
EndData == {Undefined, "", "C"}
JsonCT == "application/json; charset=utf-8"

\* JSON.stringify of the one object value the handlers pass
JsonStringify(d) == IF d = "obj" THEN "{obj}" ELSE d

\* `if (data)`: undefined and the empty string are falsy
Truthy(d) == d # Undefined /\ d # ""

StartEv(code) == [ev |-> "start", status |-> code, data |-> ""]
ChunkEv(d) == [ev |-> "chunk", status |-> 0, data |-> d]
EndEv == [ev |-> "end", status |-> 0, data |-> ""]

NewHeaders == [h \in HeaderNames |-> NoHeader]

\* createMockResponse / createStreamingMockResponse: the closure variables and
\* the headersSent property of the returned object
NewRes ==
    [statusCode |-> 200, headers |-> NewHeaders, body |-> <<>>, ended |-> FALSE,
     headersSent |-> FALSE, headersSentProp |-> FALSE]

\* The pair an operation of the response object works on
St(r, log) == [res |-> r, cb |-> log]

(***************************************************************************)
(* createStreamingMockResponse                                             *)
(***************************************************************************)
sendHeaders(s) ==
    IF ~s.res.headersSent
    THEN St([s.res EXCEPT !.headersSent = TRUE],
            Append(s.cb, StartEv(s.res.statusCode)))
    ELSE s

markEndedStreaming(s) ==
    IF ~s.res.ended
    THEN LET h == sendHeaders(s)
         IN  St([h.res EXCEPT !.ended = TRUE], Append(h.cb, EndEv))
    ELSE s

onChunk(s, d) == St(s.res, Append(s.cb, ChunkEv(d)))

StreamStatus(s, code) == St([s.res EXCEPT !.statusCode = code], s.cb)

StreamSetHeader(s, name, value) ==
    St([s.res EXCEPT !.headers[name] = value], s.cb)

StreamWriteNoHeaders(s, chunk) == onChunk(s, chunk)

StreamWrite(s, chunk) == onChunk(sendHeaders(s), chunk)

StreamJson(s, d) ==
    LET t == St([s.res EXCEPT !.headers["Content-Type"] = JsonCT], s.cb)
    IN  markEndedStreaming(onChunk(sendHeaders(t), JsonStringify(d)))

StreamSend(s, d) ==
    IF d = "obj"
    THEN StreamJson(s, d)
    ELSE markEndedStreaming(onChunk(sendHeaders(s), d))

StreamEnd(s, d) ==
    IF Truthy(d)
    THEN markEndedStreaming(onChunk(sendHeaders(s), d))
    ELSE markEndedStreaming(s)

\* redirect(statusOrUrl, url?): a number and an optional url, or a url alone
StreamRedirect(s, code, url) ==
    LET t == IF code # 0
             THEN [s.res EXCEPT !.statusCode = code,
                                !.headers["Location"] =
                                    IF Truthy(url) THEN url ELSE "/"]
             ELSE [s.res EXCEPT !.statusCode = 307, !.headers["Location"] = url]
    IN  markEndedStreaming(St(t, s.cb))

(***************************************************************************)
(* createMockResponse (unary)                                              *)
(***************************************************************************)
markEnded(s) ==
    IF ~s.res.ended THEN St([s.res EXCEPT !.ended = TRUE], s.cb) ELSE s

UnaryStatus(s, code) == St([s.res EXCEPT !.statusCode = code], s.cb)

UnarySetHeader(s, name, value) ==
    St([s.res EXCEPT !.headers[name] = value], s.cb)

UnaryWrite(s, chunk) ==
    St([s.res EXCEPT !.headersSent = TRUE, !.headersSentProp = TRUE,
                     !.body = Append(@, chunk)], s.cb)

UnaryJson(s, d) ==
    markEnded(St([s.res EXCEPT !.headers["Content-Type"] = JsonCT,
                               !.body = <<JsonStringify(d)>>], s.cb))

UnarySend(s, d) ==
    IF d = "obj"
    THEN UnaryJson(s, d)
    ELSE markEnded(St([s.res EXCEPT !.body = <<d>>], s.cb))

UnaryEnd(s, d) ==
    IF Truthy(d)
    THEN markEnded(St([s.res EXCEPT !.body = Append(@, d)], s.cb))
    ELSE markEnded(s)

UnaryRedirect(s, code, url) ==
    LET t == IF code # 0
             THEN [s.res EXCEPT !.statusCode = code,
                                !.headers["Location"] =
                                    IF Truthy(url) THEN url ELSE "/"]
             ELSE [s.res EXCEPT !.statusCode = 307, !.headers["Location"] = url]
    IN  markEnded(St(t, s.cb))

\* toResponse(): Content-Length is the number of body pieces here
toResponse(r) ==
    [statusCode |-> r.statusCode, headers |-> r.headers, body |-> r.body]

(***************************************************************************)
(* One call of a res method by the handler                                 *)
(***************************************************************************)
HandlerCalls ==
    [m : {"write"}, a : ChunkData, b : {0}]
      \cup [m : {"json"}, a : {"obj"}, b : {0}]
      \cup [m : {"send"}, a : {"obj", "A"}, b : {0}]
      \cup [m : {"end"}, a : EndData, b : {0}]
      \cup [m : {"redirect"}, a : {"/x", Undefined}, b : {302}]
      \cup [m : {"redirect"}, a : {"/x"}, b : {0}]
      \cup [m : {"status"}, a : {""}, b : {201}]
      \cup [m : {"setHeader"}, a : {"X-Custom"}, b : {0}]

ApplyCall(md, s, c) ==
    IF md = "streaming"
    THEN CASE c.m = "write" -> StreamWrite(s, c.a)
           [] c.m = "json" -> StreamJson(s, c.a)
           [] c.m = "send" -> StreamSend(s, c.a)
           [] c.m = "end" -> StreamEnd(s, c.a)
           [] c.m = "redirect" -> StreamRedirect(s, c.b, c.a)
           [] c.m = "status" -> StreamStatus(s, c.b)
           [] c.m = "setHeader" -> StreamSetHeader(s, c.a, "1")
    ELSE CASE c.m = "write" -> UnaryWrite(s, c.a)
           [] c.m = "json" -> UnaryJson(s, c.a)
           [] c.m = "send" -> UnarySend(s, c.a)
           [] c.m = "end" -> UnaryEnd(s, c.a)
           [] c.m = "redirect" -> UnaryRedirect(s, c.b, c.a)
           [] c.m = "status" -> UnaryStatus(s, c.b)
           [] c.m = "setHeader" -> UnarySetHeader(s, c.a, "1")

(***************************************************************************)
(* The transform cache: transformAndServe                                  *)
(***************************************************************************)
Files == {"/pages/index.jsx", "/pages/about.tsx"}

\* Source texts, as sequences of character codes: "Aa", "BB", "Ba", and "<",
\* which the transformer rejects
SrcAa == <<65, 97>>
SrcBB == <<66, 66>>
SrcBa == <<66, 97>>
BadSource == <<60>>
Contents == {SrcAa, SrcBB, SrcBa, BadSource}

\* simpleHash (utils/hash): a 32-bit fingerprint of the text, h := 31*h + c
\* truncated to 32 bits at every step.  The 32-bit value is kept as its two
\* 16-bit halves <<high, low>>.
Step32(h, c) ==
    LET lo == 31 * h[2] + c
        hi == 31 * h[1] + (lo \div 65536)
    IN  <<hi % 65536, lo % 65536>>

RECURSIVE HashFrom(_, _)
HashFrom(h, s) == IF s = <<>> THEN h ELSE HashFrom(Step32(h, Head(s)), Tail(s))

simpleHash(s) == HashFrom(<<0, 0>>, s)

\* the transformer throws on this content
TransformFails(content) == content = BadSource

\* transformCode(content, filePath): the ESM output for this file and content
transformCode(content, file) == <<"esm", file, content>>

NoEntry == [code |-> <<>>, hash |-> <<>>]
TransformErrorBody == <<"transform-error">>

HitResponse(code) ==
    [statusCode |-> 200, xcache |-> "hit", xerror |-> FALSE, body |-> code]
MissResponse(code) ==
    [statusCode |-> 200, xcache |-> NoHeader, xerror |-> FALSE, body |-> code]
TransformErrorResponseUnmarked ==
    [statusCode |-> 200, xcache |-> NoHeader, xerror |-> FALSE,
     body |-> TransformErrorBody]
TransformErrorResponse ==
    [statusCode |-> 200, xcache |-> NoHeader, xerror |-> TRUE,
     body |-> TransformErrorBody]
NoTransformResponse ==
    [statusCode |-> 0, xcache |-> NoHeader, xerror |-> FALSE, body |-> <<>>]

\* `cached && cached.hash === hash`
CacheLookupAnyEntry(cached, hash) == cached # NoEntry

CacheLookupHit(cached, hash) == cached # NoEntry /\ cached.hash = hash

\* this.transformCache.set(filePath, { code: transformed, hash })
CacheStoreNothing(cache, f, code, hash) == cache

CacheStoreEvictingOthers(cache, f, code, hash) ==
    [g \in DOMAIN cache |-> IF g = f THEN [code |-> code, hash |-> hash] ELSE NoEntry]

CacheStore(cache, f, code, hash) ==
    [cache EXCEPT ![f] = [code |-> code, hash |-> hash]]

\* What is remembered of a served response: the response; whether the cache
\* had no entry for the file when its request began (cold); whether that
\* request was the first one after an edit of a file with a cached transform
\* (afterEdit); whether the cached hash then differed from the content's hash
\* (stale); and the same of the response before it, when the two requests were
\* consecutive with no edit in between (pred, else NoPrev).
NoPrev ==
    [resp |-> NoTransformResponse, cold |-> FALSE, afterEdit |-> FALSE,
     stale |-> FALSE]
NoServed ==
    [resp |-> NoTransformResponse, cold |-> FALSE, afterEdit |-> FALSE,
     stale |-> FALSE, pred |-> NoPrev]
Served(resp, pred, cold, afterEdit, stale) ==
    [resp |-> resp, cold |-> cold, afterEdit |-> afterEdit, stale |-> stale,
     pred |-> pred]
PredOf(sv) ==
    [resp |-> sv.resp, cold |-> sv.cold, afterEdit |-> sv.afterEdit,
     stale |-> sv.stale]

RemoveAt(q, i) == SubSeq(q, 1, i - 1) \o SubSeq(q, i + 1, Len(q))

\* transformAndServe up to `await this.transformCode(...)`: read, hash, look
\* up; a hit is answered at once, a miss suspends
BeginTransform(f) ==
    /\ UNCHANGED nonCache
    /\ nReq < MaxRequests
    /\ Len(inflight) < MaxInflight
    /\ LET content == vfs[f]
           hash == simpleHash(content)
           cached == transformCache[f]
           alone == \A i \in DOMAIN inflight : inflight[i].file # f
           pred == IF alone /\ lastClean[f] /\ lastResp[f] # NoServed
                   THEN PredOf(lastResp[f])
                   ELSE NoPrev
           cold == cached = NoEntry
           afterEdit == alone /\ dirty[f] /\ cached # NoEntry
           stale == cached # NoEntry /\ cached.hash # hash
       IN  IF CacheLookupHit(cached, hash)
           THEN /\ lastResp' = [lastResp EXCEPT ![f] =
                        Served(HitResponse(cached.code), pred, cold, afterEdit, stale)]
                /\ lastClean' = [lastClean EXCEPT ![f] = TRUE]
                /\ UNCHANGED inflight
           ELSE /\ inflight' = Append(inflight,
                        [file |-> f, content |-> content, hash |-> hash,
                         edited |-> FALSE, pred |-> pred, cold |-> cold,
                         afterEdit |-> afterEdit, stale |-> stale])
                /\ UNCHANGED <<lastResp, lastClean>>
    /\ dirty' = [dirty EXCEPT ![f] = FALSE]
    /\ nReq' = nReq + 1
    /\ UNCHANGED <<vfs, transformCache, nEdit>>

\* transformAndServe from the end of the await: store and answer, or the catch
FinishTransform(i) ==
    /\ UNCHANGED nonCache
    /\ i \in DOMAIN inflight
    /\ LET r == inflight[i]
           code == transformCode(r.content, r.file)
           resp == IF TransformFails(r.content)
                   THEN TransformErrorResponse
                   ELSE MissResponse(code)
       IN  /\ transformCache' =
                  IF TransformFails(r.content)
                  THEN transformCache
                  ELSE CacheStore(transformCache, r.file, code, r.hash)
           /\ lastResp' = [lastResp EXCEPT ![r.file] =
                  Served(resp, r.pred, r.cold, r.afterEdit, r.stale)]
           /\ lastClean' = [lastClean EXCEPT ![r.file] = ~r.edited]
    /\ inflight' = RemoveAt(inflight, i)
    /\ UNCHANGED <<vfs, dirty, nEdit, nReq>>

\* the project is edited: vfs.writeFileSync(f, c) with new bytes
EditFile(f, c) ==
    /\ UNCHANGED nonCache
    /\ nEdit < MaxEdits
    /\ c # vfs[f]
    /\ vfs' = [vfs EXCEPT ![f] = c]
    /\ dirty' = [dirty EXCEPT ![f] = TRUE]
    /\ lastClean' = [lastClean EXCEPT ![f] = FALSE]
    /\ inflight' = [i \in DOMAIN inflight |->
            IF inflight[i].file = f
            THEN [inflight[i] EXCEPT !.edited = TRUE]
            ELSE inflight[i]]
    /\ nEdit' = nEdit + 1
    /\ UNCHANGED <<transformCache, lastResp, nReq>>

CacheStart ==
    /\ transformCache = [f \in Files |-> NoEntry]
    /\ inflight = <<>>
    /\ lastResp = [f \in Files |-> NoServed]
    /\ lastClean = [f \in Files |-> FALSE]
    /\ dirty = [f \in Files |-> FALSE]
    /\ nEdit = 0
    /\ nReq = 0

\* the cache part of the state when another part of the server is examined
CacheParked == vfs = [f \in Files |-> SrcAa] /\ CacheStart

(***************************************************************************)
(* The request dispatcher: handleRequest                                   *)
(***************************************************************************)
\* String operations on sequences of characters
StartsWith(s, p) == Len(s) >= Len(p) /\ SubSeq(s, 1, Len(p)) = p
EndsWith(s, p) == Len(s) >= Len(p) /\ SubSeq(s, Len(s) - Len(p) + 1, Len(s)) = p
Slice(s, n) == SubSeq(s, n + 1, Len(s))
\* `s || '/'`
OrSlash(s) == IF s = <<>> THEN <<"/">> ELSE s

Null == <<"<null>">>

pagesDir == <<"/", "p", "a", "g", "e", "s">>
appDir == <<"/", "a", "p", "p">>
publicDir == <<"/", "p", "u", "b", "l", "i", "c">>
VirtualMark == <<"/", "_", "_", "v", "i", "r", "t", "u", "a", "l", "_", "_", "/">>
VirtualPrefix == <<"/", "_", "_", "v", "i", "r", "t", "u", "a", "l", "_", "_", "/", "3", "0", "0", "1">>
NextPublicPrefix == <<"N", "E", "X", "T", "_", "P", "U", "B", "L", "I", "C", "_">>
PageExtensions == <<<<".", "j", "s", "x">>, <<".", "t", "s", "x">>, <<".", "j", "s">>, <<".", "t", "s">>>>
RouteExtensions == <<<<".", "t", "s">>, <<".", "j", "s">>, <<".", "t", "s", "x">>, <<".", "j", "s", "x">>>>
ApiExtensions == <<<<".", "j", "s">>, <<".", "t", "s">>, <<".", "j", "s", "x">>, <<".", "t", "s", "x">>>>
ImportExtensions == <<<<".", "t", "s", "x">>, <<".", "t", "s">>, <<".", "j", "s", "x">>, <<".", "j", "s">>>>
TransformExtensions == {<<".", "j", "s", "x">>, <<".", "t", "s", "x">>, <<".", "t", "s">>}
IndexName == <<"/", "i", "n", "d", "e", "x">>
PageName == <<"/", "p", "a", "g", "e">>

\* The projects of the request dispatcher.  None has a next.config file.
PagesProject ==
    {<<"/", "p", "u", "b", "l", "i", "c", "/", "x", ".", "p", "n", "g">>, <<"/", "p", "a", "g", "e", "s", "/", "i", "n", "d", "e", "x", ".", "j", "s", "x">>, <<"/", "p", "a", "g", "e", "s", "/", "a", "b", "o", "u", "t", ".", "j", "s", "x">>, <<"/", "p", "a", "g", "e", "s", "/", "a", "p", "i", "/", "h", ".", "j", "s">>}
PagesProject404 == PagesProject \cup {<<"/", "p", "a", "g", "e", "s", "/", "4", "0", "4", ".", "j", "s", "x">>}
AppProject ==
    {<<"/", "p", "u", "b", "l", "i", "c", "/", "x", ".", "p", "n", "g">>, <<"/", "a", "p", "p", "/", "l", "a", "y", "o", "u", "t", ".", "j", "s", "x">>, <<"/", "a", "p", "p", "/", "p", "a", "g", "e", ".", "j", "s", "x">>, <<"/", "a", "p", "p", "/", "a", "b", "o", "u", "t", "/", "p", "a", "g", "e", ".", "j", "s", "x">>,
     <<"/", "a", "p", "p", "/", "n", "o", "t", "-", "f", "o", "u", "n", "d", "/", "p", "a", "g", "e", ".", "j", "s", "x">>, <<"/", "a", "p", "p", "/", "a", "p", "i", "/", "r", "/", "r", "o", "u", "t", "e", ".", "t", "s">>}
Projects == {PagesProject, PagesProject404, AppProject}

\* The projects of the decision order: files that several rules can serve.
DispatchProjects ==
    {{<<"/", "p", "a", "g", "e", "s", "/", "i", "n", "d", "e", "x", ".", "j", "s", "x">>, <<"/", "p", "a", "g", "e", "s", "/", "a", "b", "o", "u", "t", ".", "j", "s", "x">>, <<"/", "p", "a", "g", "e", "s", "/", "a", "p", "i", "/", "h", ".", "j", "s">>, <<"/", "l", "i", "b", "/", "u", ".", "t", "s">>, <<"/", "l", "i", "b", "/", "v", ".", "t", "s", "x">>}
        \cup extra : extra \in
     SUBSET {<<"/", "p", "u", "b", "l", "i", "c", "/", "a", "p", "i", "/", "h">>, <<"/", "p", "u", "b", "l", "i", "c", "/", "_", "n", "e", "x", "t", "/", "s", "t", "a", "t", "i", "c", "/", "x">>, <<"/", "l", "i", "b", "/", "v">>,
             <<"/", "a", "b", "o", "u", "t">>, <<"/", "p", "a", "g", "e", "s", "/", "[", "i", "d", "]", ".", "j", "s", "x">>, <<"/", "p", "a", "g", "e", "s", "/", "4", "0", "4", ".", "j", "s", "x">>, <<"/", "a", "p", "p", "/", "p", "a", "g", "e", ".", "j", "s", "x">>,
             <<"/", "a", "p", "p", "/", "a", "p", "i", "/", "r", "/", "r", "o", "u", "t", "e", ".", "t", "s">>, <<"/", "a", "p", "p", "/", "n", "o", "t", "-", "f", "o", "u", "n", "d", "/", "p", "a", "g", "e", ".", "j", "s", "x">>}}

\* The projects of the route resolvers: every set of these files.
AppTrees ==
    SUBSET {<<"/", "a", "p", "p", "/", "l", "a", "y", "o", "u", "t", ".", "t", "s", "x">>, <<"/", "a", "p", "p", "/", "l", "a", "y", "o", "u", "t", ".", "j", "s", "x">>, <<"/", "a", "p", "p", "/", "p", "a", "g", "e", ".", "t", "s", "x">>, <<"/", "a", "p", "p", "/", "(", "g", ")", "/", "l", "a", "y", "o", "u", "t", ".", "t", "s", "x">>,
            <<"/", "a", "p", "p", "/", "(", "g", ")", "/", "l", "a", "y", "o", "u", "t", ".", "j", "s", "x">>, <<"/", "a", "p", "p", "/", "(", "g", ")", "/", "a", "/", "p", "a", "g", "e", ".", "t", "s", "x">>, <<"/", "a", "p", "p", "/", "a", "/", "b", "/", "p", "a", "g", "e", ".", "t", "s", "x">>,
            <<"/", "a", "p", "p", "/", "[", "i", "d", "]", "/", "l", "a", "y", "o", "u", "t", ".", "t", "s", "x">>,
            <<"/", "a", "p", "p", "/", "[", "i", "d", "]", "/", "p", "a", "g", "e", ".", "t", "s", "x">>, <<"/", "a", "p", "p", "/", "[", ".", ".", ".", "s", "]", "/", "p", "a", "g", "e", ".", "t", "s", "x">>, <<"/", "a", "p", "p", "/", "[", "[", ".", ".", ".", "o", "]", "]", "/", "p", "a", "g", "e", ".", "t", "s", "x">>,
            <<"/", "a", "p", "p", "/", "(", "g", ")", "/", "(", "h", ")", "/", "c", "/", "p", "a", "g", "e", ".", "t", "s", "x">>}
PagesTrees ==
    SUBSET {<<"/", "p", "a", "g", "e", "s", "/", "i", "n", "d", "e", "x", ".", "j", "s", "x">>, <<"/", "p", "a", "g", "e", "s", "/", "a", ".", "t", "s", "x">>, <<"/", "p", "a", "g", "e", "s", "/", "a", ".", "j", "s", "x">>, <<"/", "p", "a", "g", "e", "s", "/", "a", "/", "i", "n", "d", "e", "x", ".", "j", "s", "x">>,
            <<"/", "p", "a", "g", "e", "s", "/", "a", "/", "b", ".", "j", "s">>, <<"/", "p", "a", "g", "e", "s", "/", "[", "i", "d", "]", ".", "j", "s", "x">>, <<"/", "p", "a", "g", "e", "s", "/", "[", "i", "d", "]", "/", "i", "n", "d", "e", "x", ".", "j", "s", "x">>,
            <<"/", "p", "a", "g", "e", "s", "/", "[", ".", ".", ".", "s", "]", ".", "j", "s", "x">>}

\* the directories of a file tree: the paths that end before a / of a file
DirectoriesOf(files) ==
    {SubSeq(f, 1, i - 1) : <<f, i>> \in
        {<<f, i>> \in UNION {{f} \X (2 .. Len(f)) : f \in files} : f[i] = "/"}}

\* DevServer.exists / DevServer.isDirectory
isDirectory(path) == path \in project.directories
exists(path) == path \in project.files \/ isDirectory(path)

\* pathname.split('/').filter(Boolean)
RECURSIVE Segments(_)
Segments(pathname) ==
    IF pathname = <<>> THEN <<>>
    ELSE IF Head(pathname) = "/" THEN Segments(Tail(pathname))
    ELSE LET n == CHOOSE i \in 1 .. Len(pathname) :
                      /\ i = Len(pathname) \/ pathname[i + 1] = "/"
                      /\ \A j \in 1 .. i : pathname[j] # "/"
         IN  <<SubSeq(pathname, 1, n)>> \o Segments(Slice(pathname, n))

\* The names of the directory entries, in the forward listing order.
NameOrder ==
    <<<<"(", "g", ")">>, <<"(", "h", ")">>, <<"4", "0", "4", ".", "j", "s", "x">>, <<"[", ".", ".", ".", "s", "]">>, <<"[", ".", ".", ".", "s", "]", ".", "j", "s", "x">>, <<"[", "[", ".", ".", ".", "o", "]", "]">>, <<"[", "i", "d", "]">>, <<"[", "i", "d", "]", ".", "j", "s", "x">>,
      <<"a">>, <<"a", ".", "j", "s", "x">>, <<"a", ".", "t", "s", "x">>, <<"a", "b", "o", "u", "t">>, <<"a", "b", "o", "u", "t", ".", "j", "s", "x">>, <<"a", "p", "i">>, <<"b">>, <<"b", ".", "j", "s">>, <<"c">>, <<"h", ".", "j", "s">>,
      <<"e", "r", "r", "o", "r", ".", "t", "s", "x">>, <<"i", "n", "d", "e", "x", ".", "j", "s", "x">>, <<"l", "a", "y", "o", "u", "t", ".", "j", "s", "x">>, <<"l", "a", "y", "o", "u", "t", ".", "t", "s", "x">>, <<"l", "o", "a", "d", "i", "n", "g", ".", "j", "s", "x">>, <<"l", "o", "a", "d", "i", "n", "g", ".", "t", "s", "x">>, <<"n", "o", "t", "-", "f", "o", "u", "n", "d">>, <<"n", "o", "t", "-", "f", "o", "u", "n", "d", ".", "t", "s", "x">>, <<"p", "a", "g", "e", ".", "j", "s", "x">>, <<"p", "a", "g", "e", ".", "t", "s", "x">>, <<"r">>,
      <<"r", "o", "u", "t", "e", ".", "t", "s">>, <<"x", ".", "p", "n", "g">>, <<"_", "n", "e", "x", "t">>, <<"a", "p", "p">>, <<"h">>, <<"l", "i", "b">>, <<"p", "a", "g", "e", "s">>, <<"p", "u", "b", "l", "i", "c">>, <<"s", "t", "a", "t", "i", "c">>,
      <<"u", ".", "t", "s">>, <<"v">>, <<"v", ".", "t", "s", "x">>, <<"x">>>>

\* The entries of a directory of a file tree, in a listing order: the order
\* is the file system's, and either one can be met.
EntriesOf(files, order, dirPath) ==
    LET entries == {Head(Segments(Slice(f, Len(dirPath)))) :
                        f \in {f \in files : StartsWith(f, dirPath \o <<"/">>)}}
        forward == SelectSeq(NameOrder, LAMBDA name : name \in entries)
    IN  IF order = "forward" THEN forward
        ELSE [i \in DOMAIN forward |-> forward[Len(forward) + 1 - i]]

\* vfs.readdirSync(dirPath); it throws for a directory that does not exist,
\* which leaves its callers with no entry to loop over
readdirSync(dirPath) ==
    IF isDirectory(dirPath) THEN project.entries[dirPath] ELSE <<>>

\* the first of the candidate paths that exists, or Null
RECURSIVE FirstExisting(_)
FirstExisting(cands) ==
    IF cands = <<>> THEN Null
    ELSE IF exists(Head(cands)) THEN Head(cands)
    ELSE FirstExisting(Tail(cands))

WithExtensions(stem, exts) == [i \in DOMAIN exts |-> stem \o exts[i]]

\* loadAssetPrefix / loadBasePath with an explicit option, or with none and no
\* next.config to detect it from
NoOption == <<"<undefined>">>
loadPrefix(optionValue) ==
    IF optionValue = NoOption THEN <<>>
    ELSE LET p == IF StartsWith(optionValue, <<"/">>) THEN optionValue
                  ELSE <<"/">> \o optionValue
         IN  IF EndsWith(p, <<"/">>) THEN SubSeq(p, 1, Len(p) - 1) ELSE p

AssetPrefixOptions == {NoOption, <<"m">>, <<"/", "m", "/">>}
BasePathOptions == {NoOption, <<"/", "d">>, <<"m", "/", "d">>}

\* hasAppRouter
hasAppRouter ==
    /\ exists(appDir)
    /\ \/ FirstExisting(WithExtensions(appDir \o PageName, PageExtensions)) # Null
       \/ FirstExisting(WithExtensions(appDir \o <<"/", "l", "a", "y", "o", "u", "t">>, PageExtensions)) # Null

\* new URL(url, 'http://localhost'): throws on a malformed URL; the other
\* URLs requested are absolute paths with no query, dot segment or empty
\* first segment, of which the pathname is the URL itself
MalformedUrl == <<"h", "t", "t", "p", ":", "/", "/", "[">>
UrlThrows == [pathname |-> Null, search |-> <<>>]

\* urlObj.pathname and urlObj.search: the URL up to its first ?, and from it
ParseUrl(url) ==
    LET marks == {i \in DOMAIN url : url[i] = "?"}
        q == CHOOSE i \in marks : \A j \in marks : i <= j
    IN  IF url = MalformedUrl THEN UrlThrows
        ELSE IF marks = {} THEN [pathname |-> url, search |-> <<>>]
        ELSE [pathname |-> SubSeq(url, 1, q - 1), search |-> SubSeq(url, q, Len(url))]

\* encodeURIComponent of a path: / is escaped, the letters, digits and the
\* marks ( ) . - _ of the paths used here are not
RECURSIVE encodeURIComponent(_)
encodeURIComponent(str) ==
    IF str = <<>> THEN <<>>
    ELSE (IF Head(str) = "/" THEN <<"%", "2", "F">>
          ELSE IF Head(str) = "[" THEN <<"%", "5", "B">>
          ELSE IF Head(str) = "]" THEN <<"%", "5", "D">>
          ELSE <<Head(str)>>) \o encodeURIComponent(Tail(str))

\* the percent-decoding URLSearchParams applies to a value
RECURSIVE percentDecode(_)
percentDecode(str) ==
    IF str = <<>> THEN <<>>
    ELSE IF StartsWith(str, <<"%", "2", "F">>) THEN <<"/">> \o percentDecode(Slice(str, 3))
    ELSE IF StartsWith(str, <<"%", "5", "B">>) THEN <<"[">> \o percentDecode(Slice(str, 3))
    ELSE IF StartsWith(str, <<"%", "5", "D">>) THEN <<"]">> \o percentDecode(Slice(str, 3))
    ELSE <<Head(str)>> \o percentDecode(Tail(str))

\* urlObj.searchParams.get(name): the decoded value of the first name=value
\* pair of the query, Null when there is none
searchParamsGet(search, name) ==
    LET key == name \o <<"=">>
        starts == {i \in DOMAIN search :
                      /\ search[i] \in {"?", "&"}
                      /\ StartsWith(Slice(search, i), key)}
        first == CHOOSE i \in starts : \A j \in starts : i <= j
        value == Slice(search, first + Len(key))
        stops == {i \in DOMAIN value : value[i] = "&"}
    IN  IF starts = {} THEN Null
        ELSE IF stops = {} THEN percentDecode(value)
        ELSE percentDecode(SubSeq(value, 1, (CHOOSE i \in stops : \A j \in stops : i <= j) - 1))

\* pathname.match(/^\/__virtual__\/\d+/): the length of the match, 0 if none
RECURSIVE DigitRun(_, _)
DigitRun(s, i) ==
    IF i <= Len(s) /\ s[i] \in {"0", "1", "2", "3", "4", "5", "6", "7", "8", "9"} THEN 1 + DigitRun(s, i + 1) ELSE 0

virtualPrefixMatch(pathname) ==
    IF StartsWith(pathname, VirtualMark) /\ DigitRun(pathname, Len(VirtualMark) + 1) > 0
    THEN Len(VirtualMark) + DigitRun(pathname, Len(VirtualMark) + 1)
    ELSE 0

StripVirtualPrefix(pathname) ==
    IF virtualPrefixMatch(pathname) > 0
    THEN OrSlash(Slice(pathname, virtualPrefixMatch(pathname)))
    ELSE pathname

StripAssetPrefix(pathname, prefix) ==
    IF prefix # <<>> /\ StartsWith(pathname, prefix)
    THEN LET rest == Slice(pathname, Len(prefix))
         IN  IF rest = <<>> \/ StartsWith(rest, <<"/">>)
             THEN IF StartsWith(OrSlash(rest), <<"/", "/">>)
                  THEN Slice(OrSlash(rest), 1)
                  ELSE OrSlash(rest)
             ELSE pathname
    ELSE pathname

StripBasePath(pathname, prefix) ==
    IF prefix # <<>> /\ StartsWith(pathname, prefix)
    THEN LET rest == Slice(pathname, Len(prefix))
         IN  IF rest = <<>> \/ StartsWith(rest, <<"/">>)
             THEN OrSlash(rest)
             ELSE pathname
    ELSE pathname

StripPrefixes(pathname) ==
    StripBasePath(StripAssetPrefix(StripVirtualPrefix(pathname), assetPrefix), basePath)

\* needsTransform: /\.(jsx|tsx|ts)$/
needsTransform(path) == \E e \in TransformExtensions : EndsWith(path, e)

\* /\.\w+$/ (of the characters used here, these are not matched by \w)
HasExtension(path) ==
    \E i \in 1 .. Len(path) - 1 :
        /\ path[i] = "."
        /\ \A j \in i + 1 .. Len(path) : path[j] \notin {"/", ".", ":", "["}

\* pathname.split('/').filter(Boolean) joined under a directory
RECURSIVE JoinSegments(_)
JoinSegments(p) ==
    IF p = <<>> THEN <<>>
    ELSE IF Head(p) = "/" /\ (Tail(p) = <<>> \/ Head(Tail(p)) = "/")
         THEN JoinSegments(Tail(p))
         ELSE <<Head(p)>> \o JoinSegments(Tail(p))

\* Responses: what the caller can tell apart
NoEnvScript == [present |-> FALSE, vars |-> {}, basePath |-> Null]
NoInfo == [params |-> {}, found |-> FALSE]
Reply(code, kind, file, envScript) ==
    [statusCode |-> code, kind |-> kind, file |-> file, env |-> envScript,
     info |-> NoInfo]
Rejected == Reply(0, "rejected", Null, NoEnvScript)
NoReply == Reply(0, "none", Null, NoEnvScript)

\* generateEnvScript: JSON.stringify(publicEnvVars), as the set of its entries,
\* and JSON.stringify(this.basePath)
IsSet(key) == env[key] # Undefined

generateEnvScriptAllKeys ==
    [present |-> TRUE,
     vars |-> {<<k, env[k]>> : k \in {k \in DOMAIN env : IsSet(k)}},
     basePath |-> basePath]

generateEnvScript ==
    [present |-> TRUE,
     vars |-> {<<k, env[k]>> :
                  k \in {k \in DOMAIN env : IsSet(k) /\ StartsWith(k, NextPublicPrefix)}},
     basePath |-> basePath]

\* DevServer.serveFile / notFound, and the serve* helpers of the /_next/ paths
serveFile(filePath) == Reply(200, "file", filePath, NoEnvScript)
serveNextShim(pathname) == Reply(200, "shim", pathname, NoEnvScript)
servePageComponent(pathname) == Reply(200, "page-component", pathname, NoEnvScript)
notFound(pathname) == Reply(404, "not-found", pathname, NoEnvScript)
transformAndServe(filePath) == Reply(200, "transformed", filePath, NoEnvScript)
\* serveAppComponent: /_next/app/app/about/page.js -> /app/about/page.<ext>
AppComponentExtensions == <<<<".", "t", "s", "x">>, <<".", "j", "s", "x">>, <<".", "t", "s">>, <<".", "j", "s">>>>
StripJs(path) == IF EndsWith(path, <<".", "j", "s">>) THEN SubSeq(path, 1, Len(path) - 3) ELSE path
serveAppComponent(pathname) ==
    LET filePath == StripJs(Slice(pathname, Len(<<"/", "_", "n", "e", "x", "t", "/", "a", "p", "p">>)))
        fullPath == FirstExisting(WithExtensions(filePath, AppComponentExtensions))
    IN  IF fullPath # Null THEN transformAndServe(fullPath) ELSE notFound(pathname)
serveStaticAsset(pathname) == Reply(200, "static", pathname, NoEnvScript)
serve404Page == Reply(404, "default-404", Null, NoEnvScript)

\* the first result of a loop whose iterations return on a result
FirstResult(results, none) ==
    LET found == {i \in DOMAIN results : results[i] # none}
    IN  IF found = {} THEN none
        ELSE results[CHOOSE i \in found : \A j \in found : i <= j]

\* tryPath of resolveAppRouteHandlerDynamic: one loop over the entries of the
\* directory, each entry tried as a route group, a [name] and a [...name]
RECURSIVE tryRoutePath(_, _)
tryRoutePath(dirPath, remainingSegments) ==
    LET findRoute(dir) == FirstExisting(WithExtensions(dir \o <<"/", "r", "o", "u", "t", "e">>, RouteExtensions))
        entries == readdirSync(dirPath)
        \* /^\([^)]+\)$/ and a directory
        isGroup(e) ==
            /\ Len(e) >= 3 /\ e[1] = "(" /\ e[Len(e)] = ")"
            /\ \A i \in 2 .. Len(e) - 1 : e[i] # ")"
            /\ isDirectory(dirPath \o <<"/">> \o e)
        current == Head(remainingSegments)
        rest == Tail(remainingSegments)
        exactPath == dirPath \o <<"/">> \o current
        ofEntry(entry) ==
            LET groupExact == dirPath \o <<"/">> \o entry \o <<"/">> \o current
                dynamicPath == dirPath \o <<"/">> \o entry
            IN  FirstResult(
                    <<IF isGroup(entry) /\ isDirectory(groupExact)
                      THEN tryRoutePath(groupExact, rest) ELSE Null,
                      IF /\ StartsWith(entry, <<"[">>) /\ EndsWith(entry, <<"]">>)
                         /\ \A i \in DOMAIN entry : entry[i] # "."
                         /\ isDirectory(dynamicPath)
                      THEN tryRoutePath(dynamicPath, rest) ELSE Null,
                      IF /\ StartsWith(entry, <<"[", ".", ".", ".">>) /\ EndsWith(entry, <<"]">>)
                         /\ isDirectory(dynamicPath)
                      THEN tryRoutePath(dynamicPath, <<>>) ELSE Null>>, Null)
    IN  IF remainingSegments = <<>>
        THEN FirstResult(
                 <<findRoute(dirPath)>> \o
                 [i \in DOMAIN entries |->
                     IF isGroup(entries[i])
                     THEN findRoute(dirPath \o <<"/">> \o entries[i]) ELSE Null], Null)
        ELSE FirstResult(
                 <<IF isDirectory(exactPath) THEN tryRoutePath(exactPath, rest) ELSE Null>>
                 \o [i \in DOMAIN entries |-> ofEntry(entries[i])], Null)

\* resolveAppRouteHandler: the route file of the directory the path names,
\* else resolveAppRouteHandlerDynamic
resolveAppRouteHandler(pathname) ==
    LET static == FirstExisting(WithExtensions(appDir \o JoinSegments(pathname) \o <<"/", "r", "o", "u", "t", "e">>,
                                               RouteExtensions))
    IN  IF static # Null THEN static
        ELSE tryRoutePath(appDir, IF pathname = <<"/">> THEN <<>> ELSE Segments(pathname))

handleAppRouteHandler(file) == Reply(200, "app-route", file, NoEnvScript)

\* resolveApiFile and handleApiRoute's two outcomes seen from the dispatcher
resolveApiFile(pathname) ==
    LET api == <<"/", "a", "p", "i">>
        apiPath == pagesDir \o api \o Slice(pathname, Len(api))
    IN  FirstExisting(WithExtensions(apiPath, ApiExtensions)
                      \o WithExtensions(apiPath \o IndexName, ApiExtensions))

handleApiRouteReply(pathname) ==
    LET apiFile == resolveApiFile(pathname)
    IN  IF apiFile = Null
        THEN Reply(404, "api-not-found", Null, NoEnvScript)
        ELSE Reply(200, "api", apiFile, NoEnvScript)

\* resolveDynamicRoute: tryPath(this.pagesDir, segments)
RECURSIVE tryPagePath(_, _)
tryPagePath(dirPath, remainingSegments) ==
    IF remainingSegments = <<>>
    THEN FirstExisting(WithExtensions(dirPath \o IndexName, PageExtensions))
    ELSE LET current == Head(remainingSegments)
             rest == Tail(remainingSegments)
             exactPath == dirPath \o <<"/">> \o current
             exactFile == IF rest = <<>>
                          THEN FirstExisting(WithExtensions(exactPath, PageExtensions))
                          ELSE Null
             exactResult == IF isDirectory(exactPath) THEN tryPagePath(exactPath, rest)
                            ELSE Null
             entries == readdirSync(dirPath)
             \* entry.replace(ext, ''): the first occurrence is removed
             Without(entry, ext) ==
                 LET at == {i \in 1 .. Len(entry) - Len(ext) + 1 :
                                SubSeq(entry, i, i + Len(ext) - 1) = ext}
                     i == CHOOSE i \in at : \A j \in at : i <= j
                 IN  IF at = {} THEN entry
                     ELSE SubSeq(entry, 1, i - 1) \o Slice(entry, i + Len(ext) - 1)
             \* /^\[([^\]]+)\]$/
             dynamicFilePattern(name) ==
                 /\ Len(name) >= 3 /\ name[1] = "[" /\ name[Len(name)] = "]"
                 /\ \A i \in 2 .. Len(name) - 1 : name[i] # "]"
             filePath(entry) == dirPath \o <<"/">> \o entry
             dynamicFile(entry) ==
                 IF /\ rest = <<>>
                    /\ exists(filePath(entry))
                    /\ \E i \in DOMAIN PageExtensions :
                          /\ EndsWith(entry, PageExtensions[i])
                          /\ dynamicFilePattern(Without(entry, PageExtensions[i]))
                 THEN filePath(entry) ELSE Null
             dynamicResult(entry) ==
                 IF /\ StartsWith(entry, <<"[">>) /\ EndsWith(entry, <<"]">>)
                    /\ \A i \in DOMAIN entry : entry[i] # "."
                    /\ isDirectory(filePath(entry))
                 THEN tryPagePath(filePath(entry), rest) ELSE Null
             catchAll(entry) ==
                 IF /\ exists(filePath(entry))
                    /\ \E i \in DOMAIN PageExtensions :
                          /\ StartsWith(entry, <<"[", ".", ".", ".">>)
                          /\ EndsWith(entry, <<"]">> \o PageExtensions[i])
                 THEN filePath(entry) ELSE Null
             ofEntry(entry) ==
                 FirstResult(<<dynamicFile(entry), dynamicResult(entry), catchAll(entry)>>,
                             Null)
         IN  FirstResult(<<exactFile, exactResult,
                           FirstResult([i \in DOMAIN entries |-> ofEntry(entries[i])], Null)>>,
                         Null)

\* resolvePageFile, ending in resolveDynamicRoute
resolvePageFile(pathname) ==
    LET p == IF pathname = <<"/">> THEN IndexName ELSE pathname
        static == FirstExisting(WithExtensions(pagesDir \o p, PageExtensions)
                      \o WithExtensions(pagesDir \o p \o IndexName, PageExtensions))
    IN  IF static # Null THEN static
        ELSE IF Segments(p) = <<>> THEN Null
        ELSE tryPagePath(pagesDir, Segments(p))

\* AppRoute: the page, the layouts (outermost first) and the params, a set of
\* <<name, kind, segments>> with kind "string" or "array"
NoRoute ==
    [page |-> Null, layouts |-> <<>>, params |-> {},
     loading |-> Null, error |-> Null, notFound |-> Null]

\* findConventionFile: <dirPath>/<name><ext> for the first extension that exists
findConventionFile(dirPath, name) ==
    FirstExisting(WithExtensions(dirPath \o <<"/">> \o name, PageExtensions))

\* current.replace(/\/[^/]+$/, ''): the path without its last segment; a path
\* with no slash, or ending in one, is left as it is
ParentDirectory(current) ==
    LET slashes == {i \in DOMAIN current : current[i] = "/"}
        lastSlash == CHOOSE i \in slashes : \A j \in slashes : j <= i
    IN  IF slashes = {} \/ current[Len(current)] = "/" THEN current
        ELSE SubSeq(current, 1, lastSlash - 1)

\* the loop of findNearestConventionFile: upwards while inside the app dir
RECURSIVE ConventionWalk(_, _)
ConventionWalk(current, name) ==
    IF ~StartsWith(current, appDir) THEN Null
    ELSE IF findConventionFile(current, name) # Null THEN findConventionFile(current, name)
    ELSE IF ParentDirectory(current) = current THEN Null
    ELSE ConventionWalk(ParentDirectory(current), name)

findNearestConventionFileOwnDirectory(dirPath, name) == findConventionFile(dirPath, name)
findNearestConventionFile(dirPath, name) == ConventionWalk(dirPath, name)

\* collectLayout of resolveAppDynamicRoute
collectLayoutNone(dirPath, layouts) == layouts
collectLayoutPrepended(dirPath, layouts) ==
    LET layoutPath == FirstExisting(WithExtensions(dirPath \o <<"/", "l", "a", "y", "o", "u", "t">>, PageExtensions))
    IN  IF layoutPath = Null THEN layouts ELSE <<layoutPath>> \o layouts
collectLayout(dirPath, layouts) ==
    LET layoutPath(i) == dirPath \o <<"/", "l", "a", "y", "o", "u", "t">> \o PageExtensions[i]
        found == {i \in DOMAIN PageExtensions :
                     /\ exists(layoutPath(i))
                     /\ \A k \in DOMAIN layouts : layouts[k] # layoutPath(i)}
    IN  IF found = {} THEN layouts
        ELSE Append(layouts, layoutPath(CHOOSE i \in found : \A j \in found : i <= j))

\* { ...params, [paramName]: value }
withParamDropped(params, name, kind, value) == params
withParam(params, name, kind, value) ==
    {p \in params : p[1] # name} \cup {<<name, kind, value>>}

\* tryPath of resolveAppDynamicRoute
RECURSIVE tryAppPath(_, _, _, _)
tryAppPath(dirPath, remainingSegments, layoutsBefore, params) ==
    LET layouts == collectLayout(dirPath, layoutsBefore)
        findPage(dir) == FirstExisting(WithExtensions(dir \o PageName, PageExtensions))
        \* getRouteGroups: /^\([^)]+\)$/ and a directory
        groups == SelectSeq(readdirSync(dirPath), LAMBDA e :
                      /\ Len(e) >= 3 /\ e[1] = "(" /\ e[Len(e)] = ")"
                      /\ \A i \in 2 .. Len(e) - 1 : e[i] # ")"
                      /\ isDirectory(dirPath \o <<"/">> \o e))
        groupPath(i) == dirPath \o <<"/">> \o groups[i]
        groupLayouts(i) == collectLayout(groupPath(i), layouts)
        Found(dir, ls) ==
            [page |-> findPage(dir), layouts |-> ls, params |-> params,
             loading |-> findNearestConventionFile(dir, <<"l", "o", "a", "d", "i", "n", "g">>),
             error |-> findNearestConventionFile(dir, <<"e", "r", "r", "o", "r">>),
             notFound |-> findNearestConventionFile(dir, <<"n", "o", "t", "-", "f", "o", "u", "n", "d">>)]
        \* the dynamic entries of a directory, each tried in listing order
        dynamic(dir, ls) ==
            LET entries == readdirSync(dir)
                current == Head(remainingSegments)
                rest == Tail(remainingSegments)
                ofEntry(entry) ==
                    LET dynamicPath == dir \o <<"/">> \o entry
                        n == Len(entry)
                    IN  IF StartsWith(entry, <<"[", ".", ".", ".">>) /\ EndsWith(entry, <<"]">>)
                        THEN IF isDirectory(dynamicPath)
                             THEN tryAppPath(dynamicPath, <<>>, ls,
                                      withParam(params, SubSeq(entry, 5, n - 1), "array", remainingSegments))
                             ELSE NoRoute
                        ELSE IF StartsWith(entry, <<"[", "[", ".", ".", ".">>) /\ EndsWith(entry, <<"]", "]">>)
                        THEN IF isDirectory(dynamicPath)
                             THEN tryAppPath(dynamicPath, <<>>, ls,
                                      withParam(params, SubSeq(entry, 6, n - 2), "array", remainingSegments))
                             ELSE NoRoute
                        ELSE IF /\ StartsWith(entry, <<"[">>) /\ EndsWith(entry, <<"]">>)
                                /\ \A i \in DOMAIN entry : entry[i] # "."
                        THEN IF isDirectory(dynamicPath)
                             THEN tryAppPath(dynamicPath, rest, ls,
                                      withParam(params, SubSeq(entry, 2, n - 1), "string", <<current>>))
                             ELSE NoRoute
                        ELSE NoRoute
            IN  FirstResult([i \in DOMAIN entries |-> ofEntry(entries[i])], NoRoute)
        exact(dir, ls) ==
            LET exactPath == dir \o <<"/">> \o Head(remainingSegments)
            IN  IF isDirectory(exactPath)
                THEN tryAppPath(exactPath, Tail(remainingSegments), ls, params)
                ELSE NoRoute
    IN  IF remainingSegments = <<>>
        THEN IF findPage(dirPath) # Null THEN Found(dirPath, layouts)
             ELSE FirstResult([i \in DOMAIN groups |->
                                  IF findPage(groupPath(i)) # Null
                                  THEN Found(groupPath(i), groupLayouts(i))
                                  ELSE NoRoute], NoRoute)
        ELSE FirstResult(
                 <<exact(dirPath, layouts),
                   FirstResult([i \in DOMAIN groups |->
                                   FirstResult(<<exact(groupPath(i), groupLayouts(i)),
                                                 dynamic(groupPath(i), groupLayouts(i))>>,
                                               NoRoute)], NoRoute),
                   dynamic(dirPath, layouts)>>, NoRoute)

\* resolveAppRoute, through resolveAppDynamicRoute: the root layout is
\* collected before the walk starts
resolveAppRoute(pathname) ==
    LET rootLayout == FirstExisting(WithExtensions(appDir \o <<"/", "l", "a", "y", "o", "u", "t">>, PageExtensions))
    IN  tryAppPath(appDir, IF pathname = <<"/">> THEN <<>> ELSE Segments(pathname),
                   IF rootLayout = Null THEN <<>> ELSE <<rootLayout>>, {})

\* serveRouteInfo: JSON.stringify of { params, found }
serveRouteInfoNoParams(pathname) ==
    [Reply(200, "route-info", <<>>, NoEnvScript) EXCEPT
        !.info = [params |-> {}, found |-> resolveAppRoute(pathname) # NoRoute]]

serveRouteInfo(pathname) ==
    LET route == resolveAppRoute(pathname)
    IN  [Reply(200, "route-info", <<>>, NoEnvScript) EXCEPT
            !.info = IF route # NoRoute
                     THEN [params |-> route.params, found |-> TRUE]
                     ELSE [params |-> {}, found |-> FALSE]]

\* resolveFileWithExtension
resolveFileWithExtension(pathname) ==
    IF HasExtension(pathname) /\ exists(pathname) THEN pathname
    ELSE FirstExisting(WithExtensions(pathname, ImportExtensions)
                       \o WithExtensions(pathname \o IndexName, ImportExtensions))

\* handleAppRouterPage
handleAppRouterPage(pathname) ==
    LET route == resolveAppRoute(pathname)
        notFoundRoute == resolveAppRoute(<<"/", "n", "o", "t", "-", "f", "o", "u", "n", "d">>)
    IN  IF route = NoRoute
        THEN IF notFoundRoute # NoRoute
             THEN Reply(404, "app-html", notFoundRoute.page, generateEnvScript)
             ELSE serve404Page
        ELSE Reply(200, "app-html", route.page, generateEnvScript)

\* handlePageRoute
handlePageRoute(pathname) ==
    LET pageFile == resolvePageFile(pathname)
        notFoundPage == resolvePageFile(<<"/", "4", "0", "4">>)
    IN  IF useAppRouter THEN handleAppRouterPage(pathname)
        ELSE IF pageFile = Null
             THEN IF notFoundPage # Null
                  THEN Reply(404, "pages-html", notFoundPage, generateEnvScript)
                  ELSE serve404Page
             ELSE IF needsTransform(pathname)
                  THEN transformAndServe(pageFile)
                  ELSE Reply(200, "pages-html", pageFile, generateEnvScript)

DispatchPublicBeforeApi(pathname) ==
    LET appRouteFile == resolveAppRouteHandler(pathname)
        publicPath == publicDir \o pathname
        resolvedFile == resolveFileWithExtension(pathname)
    IN
    IF StartsWith(pathname, <<"/", "_", "n", "e", "x", "t", "/", "s", "h", "i", "m", "s", "/">>) THEN serveNextShim(pathname)
    ELSE IF pathname = <<"/", "_", "n", "e", "x", "t", "/", "r", "o", "u", "t", "e", "-", "i", "n", "f", "o">> THEN serveRouteInfo(<<"/">>)
    ELSE IF StartsWith(pathname, <<"/", "_", "n", "e", "x", "t", "/", "p", "a", "g", "e", "s", "/">>) THEN servePageComponent(pathname)
    ELSE IF StartsWith(pathname, <<"/", "_", "n", "e", "x", "t", "/", "a", "p", "p", "/">>) THEN serveAppComponent(pathname)
    ELSE IF StartsWith(pathname, <<"/", "_", "n", "e", "x", "t", "/", "s", "t", "a", "t", "i", "c", "/">>) THEN serveStaticAsset(pathname)
    ELSE IF useAppRouter /\ appRouteFile # Null THEN handleAppRouteHandler(appRouteFile)
    ELSE IF exists(publicPath) /\ ~isDirectory(publicPath) THEN serveFile(publicPath)
    ELSE IF StartsWith(pathname, <<"/", "a", "p", "i", "/">>) THEN handleApiRouteReply(pathname)
    ELSE IF needsTransform(pathname) /\ exists(pathname) THEN transformAndServe(pathname)
    ELSE IF resolvedFile # Null
         THEN IF needsTransform(resolvedFile)
              THEN transformAndServe(resolvedFile)
              ELSE serveFile(resolvedFile)
    ELSE IF exists(pathname) /\ ~isDirectory(pathname) THEN serveFile(pathname)
    ELSE handlePageRoute(pathname)

\* handleRequest after the prefixes are stripped: the first rule that applies
Dispatch(pathname) ==
    LET appRouteFile == resolveAppRouteHandler(pathname)
        publicPath == publicDir \o pathname
        resolvedFile == resolveFileWithExtension(pathname)
    IN
    IF StartsWith(pathname, <<"/", "_", "n", "e", "x", "t", "/", "s", "h", "i", "m", "s", "/">>)
         THEN serveNextShim(pathname)
    ELSE IF pathname = <<"/", "_", "n", "e", "x", "t", "/", "r", "o", "u", "t", "e", "-", "i", "n", "f", "o">>
         THEN serveRouteInfo(<<"/">>)
    ELSE IF StartsWith(pathname, <<"/", "_", "n", "e", "x", "t", "/", "p", "a", "g", "e", "s", "/">>)
         THEN servePageComponent(pathname)
    ELSE IF StartsWith(pathname, <<"/", "_", "n", "e", "x", "t", "/", "a", "p", "p", "/">>)
         THEN serveAppComponent(pathname)
    ELSE IF StartsWith(pathname, <<"/", "_", "n", "e", "x", "t", "/", "s", "t", "a", "t", "i", "c", "/">>)
         THEN serveStaticAsset(pathname)
    ELSE IF useAppRouter /\ appRouteFile # Null THEN handleAppRouteHandler(appRouteFile)
    ELSE IF StartsWith(pathname, <<"/", "a", "p", "i", "/">>) THEN handleApiRouteReply(pathname)
    ELSE IF exists(publicPath) /\ ~isDirectory(publicPath) THEN serveFile(publicPath)
    ELSE IF needsTransform(pathname) /\ exists(pathname) THEN transformAndServe(pathname)
    ELSE IF resolvedFile # Null
         THEN IF needsTransform(resolvedFile)
              THEN transformAndServe(resolvedFile)
              ELSE serveFile(resolvedFile)
    ELSE IF exists(pathname) /\ ~isDirectory(pathname) THEN serveFile(pathname)
    ELSE handlePageRoute(pathname)

\* handleRequest: what the returned promise settles to
handleRequestResult(url) ==
    LET urlObj == ParseUrl(url)
        pathname == StripPrefixes(urlObj.pathname)
        param == searchParamsGet(urlObj.search, <<"p", "a", "t", "h", "n", "a", "m", "e">>)
    IN  IF urlObj = UrlThrows THEN Rejected
        \* the one rule that reads the query: searchParams.get('pathname') || '/'
        ELSE IF pathname = <<"/", "_", "n", "e", "x", "t", "/", "r", "o", "u", "t", "e", "-", "i", "n", "f", "o">> /\ param # Null
        THEN serveRouteInfo(OrSlash(param))
        ELSE Dispatch(pathname)

\* The requests made: paths that carry no prefix, each alone and behind the
\* virtual prefix, the asset prefix (with one slash and with two) and the base
\* path, and a URL that does not parse
PlainPaths == {<<"/">>, <<"/", "x", ".", "p", "n", "g">>, <<"/", "a", "b", "o", "u", "t">>, <<"/", "n", "o", "p", "e">>, <<"/", "a", "p", "i", "/", "h">>, <<"/", "a", "p", "i", "/", "r">>}
Forms == {"plain", "virtual", "asset", "asset-slash", "base"}
Prefixed(form, P) ==
    CASE form = "plain" -> P
      [] form = "virtual" -> VirtualPrefix \o P
      [] form = "asset" -> assetPrefix \o P
      [] form = "asset-slash" -> assetPrefix \o <<"/">> \o P
      [] form = "base" -> basePath \o P
FormApplies(form) ==
    /\ form \in {"asset", "asset-slash"} => assetPrefix # <<>>
    /\ form = "base" => basePath # <<>>
RequestUrls ==
    {MalformedUrl} \cup {Prefixed(form, P) : form \in {f \in Forms : FormApplies(f)},
                                            P \in PlainPaths}

\* The requests of the decision order: paths with no prefix to strip.
DispatchPaths ==
    {<<"/">>, <<"/", "a", "b", "o", "u", "t">>, <<"/", "n", "o", "p", "e">>, <<"/", "n", "o", "p", "e", ".", "t", "s", "x">>, <<"/", "n", "o", "p", "e", "/", "d", "e", "e", "p">>, <<"/", "a", "p", "i", "/", "h">>, <<"/", "a", "p", "i", "/", "r">>, <<"/", "l", "i", "b", "/", "u", ".", "t", "s">>,
     <<"/", "l", "i", "b", "/", "v">>, <<"/", "_", "n", "e", "x", "t", "/", "s", "h", "i", "m", "s", "/", "a">>, <<"/", "_", "n", "e", "x", "t", "/", "r", "o", "u", "t", "e", "-", "i", "n", "f", "o">>, <<"/", "_", "n", "e", "x", "t", "/", "p", "a", "g", "e", "s", "/", "a">>, <<"/", "_", "n", "e", "x", "t", "/", "a", "p", "p", "/", "a">>,
     <<"/", "_", "n", "e", "x", "t", "/", "s", "t", "a", "t", "i", "c", "/", "x">>}

EnvKeys == {<<"N", "E", "X", "T", "_", "P", "U", "B", "L", "I", "C", "_", "A">>, <<"N", "E", "X", "T", "_", "P", "U", "B", "L", "I", "C">>, <<"S", "E", "C", "R", "E", "T">>}
EnvValues == {"2"}
NoRequest == [url |-> Null, reply |-> NoReply]

\* handleRequest(method, url, headers, body)
HandleRequest(url) ==
    /\ UNCHANGED nonRequest
    /\ last' = [url |-> url, reply |-> handleRequestResult(url)]
    /\ plain' = IF url \in PlainPaths THEN last' ELSE plain
    /\ UNCHANGED <<project, useAppRouter, assetPrefix, basePath, env, nSetEnv,
                   listing, resolved>>

\* handleStreamingRequest up to the handler: the pathname of the URL, as it
\* is, must start with /api/ and name a handler file of the pages directory
handleStreamingResult(url) ==
    LET urlObj == ParseUrl(url)
        pathname == urlObj.pathname
        apiFile == resolveApiFile(pathname)
    IN  IF urlObj = UrlThrows THEN Rejected
        ELSE IF ~StartsWith(pathname, <<"/", "a", "p", "i", "/">>)
        THEN Reply(404, "stream-not-found", Null, NoEnvScript)
        ELSE IF apiFile = Null
        THEN Reply(404, "stream-api-not-found", Null, NoEnvScript)
        ELSE Reply(200, "stream-api", apiFile, NoEnvScript)

\* handleStreamingRequest(method, url, headers, body, onStart, onChunk, onEnd)
StreamingRequest(url) ==
    /\ UNCHANGED nonRequest
    /\ last' = [url |-> url, reply |-> handleStreamingResult(url)]
    /\ plain' = IF url \in PlainPaths THEN last' ELSE plain
    /\ UNCHANGED <<project, useAppRouter, assetPrefix, basePath, env, nSetEnv,
                   listing, resolved>>

\* setEnv(key, value); the replies remembered are those of the current env
SetEnv(key, value) ==
    /\ UNCHANGED nonRequest
    /\ nSetEnv < MaxSetEnv
    /\ env' = [env EXCEPT ![key] = value]
    /\ plain' = NoRequest
    /\ last' = NoRequest
    /\ nSetEnv' = nSetEnv + 1
    /\ UNCHANGED <<project, useAppRouter, assetPrefix, basePath, listing, resolved>>

NoResolution == [resolver |-> "none", pathname |-> Null, page |-> Null, route |-> NoRoute]

\* the pathnames resolved
RoutePaths == {<<"/">>, <<"/", "a">>, <<"/", "a", "/", "b">>, <<"/", "c">>, <<"/", "x", "/", "y">>}

\* The requests of the route-info endpoint: with a pathname, with none, with an
\* empty one, with another parameter first
RouteInfoQuery(P) == <<"/", "_", "n", "e", "x", "t", "/", "r", "o", "u", "t", "e", "-", "i", "n", "f", "o", "?", "p", "a", "t", "h", "n", "a", "m", "e", "=">> \o P
RouteInfoUrls ==
    {RouteInfoQuery(P) : P \in RoutePaths \cup {<<>>}}
        \cup {<<"/", "_", "n", "e", "x", "t", "/", "r", "o", "u", "t", "e", "-", "i", "n", "f", "o">>, <<"/", "_", "n", "e", "x", "t", "/", "r", "o", "u", "t", "e", "-", "i", "n", "f", "o", "?", "x", "=", "1">>,
              <<"/", "_", "n", "e", "x", "t", "/", "r", "o", "u", "t", "e", "-", "i", "n", "f", "o", "?", "x", "=", "1", "&", "p", "a", "t", "h", "n", "a", "m", "e", "=", "/", "a", "/", "b">>}

\* resolveAppRoute(pathname), as handleAppRouterPage calls it.  The resolvers
\* read the project and change nothing: a behaviour holds one resolution.
ResolveAppRoute(pathname) ==
    /\ UNCHANGED nonRequest
    /\ useAppRouter
    /\ resolved = NoResolution
    /\ resolved' = [resolver |-> "app", pathname |-> pathname,
                    page |-> resolveAppRoute(pathname).page,
                    route |-> resolveAppRoute(pathname)]
    /\ UNCHANGED <<project, useAppRouter, assetPrefix, basePath, env, plain, last,
                   nSetEnv, listing>>

\* resolvePageFile(pathname), as handlePageRoute calls it
ResolvePageFile(pathname) ==
    /\ UNCHANGED nonRequest
    /\ ~useAppRouter
    /\ resolved = NoResolution
    /\ resolved' = [resolver |-> "pages", pathname |-> pathname,
                    page |-> resolvePageFile(pathname), route |-> NoRoute]
    /\ UNCHANGED <<project, useAppRouter, assetPrefix, basePath, env, plain, last,
                   nSetEnv, listing>>

\* The module of a route.<ext> file: what it exports under each method name
ExportNames == {"GET", "get", "POST", "post"}
ExportKinds == {"function", "object", "none"}
NoModule == [n \in ExportNames |-> "none"]
RouteModules ==
    {NoModule,
     [NoModule EXCEPT !["GET"] = "function"],
     [NoModule EXCEPT !["get"] = "function"],
     [NoModule EXCEPT !["GET"] = "function", !["POST"] = "function"],
     [NoModule EXCEPT !["GET"] = "object", !["get"] = "function"],
     [NoModule EXCEPT !["post"] = "function"],
     [NoModule EXCEPT !["POST"] = "object"]}
Methods == {"GET", "POST", "post"}
toUpperCase(method) == IF method = "post" THEN "POST" ELSE method
toLowerCase(method) == IF method = "POST" THEN "post" ELSE IF method = "GET" THEN "get" ELSE method

AppReply(code, contentType, body) ==
    [statusCode |-> code, contentType |-> contentType, body |-> body]
NoAppReply == AppReply(0, NoHeader, <<>>)
NoAppRequest ==
    [pc |-> "idle", method |-> "", pathname |-> <<>>, file |-> Null,
     module |-> NoModule, prep |-> "ok", seen |-> <<>>, params |-> {}, called |-> <<>>,
     promise |-> "none", reply |-> NoAppReply, writes |-> 0]

\* The HMR notifier before start(): no watcher, no target window, nothing sent.
\* watcherCleanup is the set of the watchers the stored cleanup closes (null:
\* none), closed the watchers whose close() was called, stopped whether stop()
\* was the last of the start / target / stop calls
NoWatch ==
    [watchers |-> <<>>, starts |-> 0, target |-> FALSE, changes |-> <<>>,
     log |-> <<>>, posted |-> <<>>, watcherCleanup |-> {}, closed |-> {},
     stopped |-> FALSE]

\* The browser before a shell is opened: no Router mounted, no HMR client
NoRouter ==
    [location |-> Null, path |-> Null, Page |-> Null, layouts |-> <<>>,
     params |-> {}, loads |-> <<>>, navigations |-> 0,
     pageReply |-> [path |-> Null, statusCode |-> 0, kind |-> "none", file |-> Null]]
NoHmrClient ==
    [ready |-> FALSE, refresh |-> FALSE, pending |-> <<>>, timers |-> 0,
     batches |-> <<>>, received |-> <<>>, applied |-> <<>>, reloaded |-> FALSE]

\* new NextDevServer(vfs, options)
Constructed(proj, order, assetOption, baseOption, envOption) ==
    /\ project = [files |-> proj, directories |-> DirectoriesOf(proj),
                  entries |-> [dir \in DirectoriesOf(proj) |-> EntriesOf(proj, order, dir)]]
    /\ listing = order
    /\ useAppRouter = hasAppRouter
    /\ assetPrefix = loadPrefix(assetOption)
    /\ basePath = loadPrefix(baseOption)
    /\ env = envOption
    /\ plain = NoRequest
    /\ last = NoRequest
    /\ nSetEnv = 0
    /\ resolved = NoResolution
    /\ areq = NoAppRequest
    /\ watch = NoWatch
    /\ router = NoRouter
    /\ hmr = NoHmrClient

EnvOptions ==
    {[k \in EnvKeys |-> Undefined],
     [k \in EnvKeys |-> IF k = <<"N", "E", "X", "T", "_", "P", "U", "B", "L", "I", "C">> THEN Undefined ELSE "1"]}

\* the dispatcher part of the state when another part of the server is examined
RequestParked ==
    Constructed(PagesProject, "forward", NoOption, NoOption, [k \in EnvKeys |-> Undefined])

(***************************************************************************)
(* handleStreamingRequest / handleApiRoute / executeApiHandler             *)
(***************************************************************************)
Modes == {"unary", "streaming"}
\* nonApi: the path does not start with /api/ (streaming entry point only);
\* noFile: resolveApiFile finds nothing; ok: the handler file exists
Routes == {"nonApi", "noFile", "ok"}
\* What can fail between the file being found and the handler being called:
\* readFileSync, transformApiHandler, JSON.parse of the body, the module body,
\* a default export that is not a function
Preps == {"ok", "readError", "transformError", "badBody", "moduleThrows", "noHandler"}
ReturnKinds == {"value", "settles", "never"}

ErrNotFound == "{error:Not found}"
ErrNoRoute == "{error:API route not found}"
ErrMessage == "{error:message}"

NotFoundJson ==
    [statusCode |-> 404,
     headers |-> [NewHeaders EXCEPT !["Content-Type"] = JsonCT],
     body |-> <<ErrNoRoute>>]

ErrorJson ==
    [statusCode |-> 500,
     headers |-> [NewHeaders EXCEPT !["Content-Type"] = JsonCT],
     body |-> <<ErrMessage>>]

\* the three callbacks a streaming exit path makes directly
StreamingReply(log, code, msg) ==
    log \o <<StartEv(code), ChunkEv(msg), EndEv>>

\* catch (error) of handleStreamingRequest
StreamingCatch(log) == StreamingReply(log, 500, ErrMessage)

\* catch (error) of handleApiRoute and of handleStreamingRequest
Catch ==
    /\ pc' = "done"
    /\ IF mode' = "streaming"
       THEN cb' = StreamingCatch(cb) /\ UNCHANGED response
       ELSE response' = ErrorJson /\ UNCHANGED cb

\* after `await this.executeApiHandler(...)`: return at once when the response
\* has ended, else arm the timer and race it against waitForEnd()
AfterExecute ==
    IF res.ended
    THEN /\ pc' = "done"
         /\ response' = IF mode = "unary" THEN toResponse(res) ELSE response
         /\ UNCHANGED timer
    ELSE /\ pc' = "waitEnd"
         /\ timer' = "armed"
         /\ UNCHANGED response

HandleStreamingRequest(route, prep) ==
    /\ UNCHANGED nonHandler
    /\ pc = "idle"
    /\ mode' = "streaming"
    /\ UNCHANGED <<promise, ops, res, timer, response>>
    /\ IF route = "nonApi"
       THEN /\ cb' = StreamingReply(cb, 404, ErrNotFound)
            /\ pc' = "done"
            /\ UNCHANGED hlive
       ELSE IF route = "noFile"
       THEN /\ cb' = StreamingReply(cb, 404, ErrNoRoute)
            /\ pc' = "done"
            /\ UNCHANGED hlive
       ELSE IF prep # "ok"
       THEN /\ cb' = StreamingCatch(cb)
            /\ pc' = "done"
            /\ UNCHANGED hlive
       ELSE /\ pc' = "inHandler"
            /\ hlive' = TRUE
            /\ UNCHANGED cb

HandleApiRoute(route, prep) ==
    /\ UNCHANGED nonHandler
    /\ pc = "idle"
    /\ route # "nonApi"
    /\ mode' = "unary"
    /\ UNCHANGED <<promise, ops, res, timer, cb>>
    /\ IF route = "noFile"
       THEN /\ response' = NotFoundJson
            /\ pc' = "done"
            /\ UNCHANGED hlive
       ELSE IF prep # "ok"
       THEN /\ response' = ErrorJson
            /\ pc' = "done"
            /\ UNCHANGED hlive
       ELSE /\ pc' = "inHandler"
            /\ hlive' = TRUE
            /\ UNCHANGED response

\* The handler, or a callback it scheduled, calls a method of res.  The
\* dispatcher cannot run during the handler's synchronous part (inHandler);
\* afterwards the handler's callbacks interleave with it, also once it returned.
HandlerCall(c) ==
    /\ UNCHANGED nonHandler
    /\ hlive
    /\ pc \in {"inHandler", "awaitHandler", "waitEnd", "done"}
    /\ Len(ops) < MaxOps
    /\ LET s == ApplyCall(mode, St(res, cb), c)
       IN  res' = s.res /\ cb' = s.cb
    /\ ops' = Append(ops, c)
    /\ UNCHANGED <<mode, pc, promise, hlive, timer, response>>

\* the handler throws synchronously: executeApiHandler rethrows
HandlerThrow ==
    /\ UNCHANGED nonHandler
    /\ pc = "inHandler"
    /\ UNCHANGED <<mode, promise, hlive, ops, res, timer>>
    /\ Catch

\* the handler returns: a non-promise value, or a promise (which later settles,
\* or never does); `if (result instanceof Promise) await result`
HandlerReturn(k) ==
    /\ UNCHANGED nonHandler
    /\ pc = "inHandler"
    /\ promise' = k
    /\ UNCHANGED <<mode, hlive, ops, res, cb>>
    /\ IF k = "value"
       THEN AfterExecute
       ELSE pc' = "awaitHandler" /\ UNCHANGED <<timer, response>>

PromiseResolve ==
    /\ UNCHANGED nonHandler
    /\ pc = "awaitHandler"
    /\ promise = "settles"
    /\ UNCHANGED <<mode, promise, hlive, ops, res, cb>>
    /\ AfterExecute

PromiseReject ==
    /\ UNCHANGED nonHandler
    /\ pc = "awaitHandler"
    /\ promise = "settles"
    /\ UNCHANGED <<mode, promise, hlive, ops, res, timer>>
    /\ Catch

\* waitForEnd() won the race: the response ended while the dispatcher waited
EndObserved ==
    /\ UNCHANGED nonHandler
    /\ pc = "waitEnd"
    /\ res.ended
    /\ pc' = "done"
    /\ response' = IF mode = "unary" THEN toResponse(res) ELSE response
    /\ UNCHANGED <<mode, promise, hlive, ops, res, cb, timer>>

\* setTimeout(() => reject(new Error('API handler timeout')), 30000): the
\* rejection reaches the catch only while the race is still undecided
TimerFire ==
    /\ UNCHANGED nonHandler
    /\ timer = "armed"
    /\ timer' = "fired"
    /\ UNCHANGED <<mode, promise, hlive, ops, res>>
    /\ IF pc = "waitEnd" /\ ~res.ended
       THEN Catch
       ELSE UNCHANGED <<pc, cb, response>>

HandlerStart ==
    /\ mode = "unary"
    /\ pc = "idle"
    /\ promise = "none"
    /\ hlive = FALSE
    /\ ops = <<>>
    /\ res = NewRes
    /\ cb = <<>>
    /\ timer = "unset"
    /\ response = NoResponse

InitHandler == HandlerStart /\ CacheParked /\ RequestParked

NextHandler ==
    \/ \E route \in Routes, prep \in Preps : HandleStreamingRequest(route, prep)
    \/ \E route \in Routes, prep \in Preps : HandleApiRoute(route, prep)
    \/ \E c \in HandlerCalls : HandlerCall(c)
    \/ HandlerThrow
    \/ \E k \in ReturnKinds : HandlerReturn(k)
    \/ PromiseResolve
    \/ PromiseReject
    \/ EndObserved
    \/ TimerFire

SpecHandler == InitHandler /\ [][NextHandler]_vars

\* The streaming entry point alone: every request is a handleStreamingRequest
NextStreamingHandler ==
    \/ \E route \in Routes, prep \in Preps : HandleStreamingRequest(route, prep)
    \/ \E c \in HandlerCalls : HandlerCall(c)
    \/ HandlerThrow
    \/ \E k \in ReturnKinds : HandlerReturn(k)
    \/ PromiseResolve
    \/ PromiseReject
    \/ EndObserved
    \/ TimerFire

SpecStreamingHandler == InitHandler /\ [][NextStreamingHandler]_vars

\* The event loop runs every ready continuation and fires every armed timer;
\* the handler's synchronous part returns or throws; a promise that settles
\* does settle.  Nothing makes a handler call res again.
FairSpecHandler ==
    /\ SpecHandler
    /\ WF_vars(HandlerThrow \/ \E k \in ReturnKinds : HandlerReturn(k))
    /\ WF_vars(PromiseResolve \/ PromiseReject)
    /\ WF_vars(EndObserved)
    /\ WF_vars(TimerFire)

InitCache == HandlerStart /\ vfs \in [Files -> Contents] /\ CacheStart /\ RequestParked

NextCache ==
    \/ \E f \in Files : BeginTransform(f)
    \/ \E i \in 1..MaxInflight : FinishTransform(i)
    \/ \E f \in Files, c \in Contents : EditFile(f, c)

SpecCache == InitCache /\ [][NextCache]_vars

InitRequest ==
    /\ HandlerStart
    /\ CacheParked
    /\ \E proj \in Projects, assetOption \in AssetPrefixOptions,
          baseOption \in BasePathOptions, envOption \in EnvOptions :
            Constructed(proj, "forward", assetOption, baseOption, envOption)

NextRequest ==
    \/ \E url \in RequestUrls : HandleRequest(url)
    \/ \E key \in EnvKeys, value \in EnvValues : SetEnv(key, value)

SpecRequest == InitRequest /\ [][NextRequest]_vars

\* The streaming entry point, requested with the URLs of the dispatcher
NextStreaming == \E url \in RequestUrls : StreamingRequest(url)

SpecStreaming == InitRequest /\ [][NextStreaming]_vars

InitDispatch ==
    /\ HandlerStart
    /\ CacheParked
    /\ \E proj \in DispatchProjects :
            Constructed(proj, "forward", NoOption, NoOption, [k \in EnvKeys |-> Undefined])

NextDispatch == \E url \in DispatchPaths : HandleRequest(url)

SpecDispatch == InitDispatch /\ [][NextDispatch]_vars

InitRoute ==
    /\ HandlerStart
    /\ CacheParked
    /\ \E proj \in AppTrees \cup PagesTrees, order \in {"forward", "backward"} :
            Constructed(proj, order, NoOption, NoOption, [k \in EnvKeys |-> Undefined])

NextRoute ==
    \/ \E pathname \in RoutePaths : last = NoRequest /\ ResolveAppRoute(pathname)
    \/ \E pathname \in RoutePaths : last = NoRequest /\ ResolvePageFile(pathname)
    \/ \E url \in RouteInfoUrls :
            resolved = NoResolution /\ last = NoRequest /\ HandleRequest(url)

SpecRoute == InitRoute /\ [][NextRoute]_vars

\* Trees for comparing the two app-mode resolvers: under the root layout,
\* any of these directories, each holding a page.tsx and a route.ts, so that
\* a directory has a page exactly when it has a route file
TwinDirectories ==
    {<<"/", "a", "p", "p", "/", "a", "/", "b">>, <<"/", "a", "p", "p", "/", "(", "g", ")", "/", "a">>, <<"/", "a", "p", "p", "/", "(", "g", ")", "/", "[", "i", "d", "]">>, <<"/", "a", "p", "p", "/", "[", "i", "d", "]">>, <<"/", "a", "p", "p", "/", "[", ".", ".", ".", "s", "]">>, <<"/", "a", "p", "p", "/", "[", "[", ".", ".", ".", "o", "]", "]">>}
TwinTrees ==
    {{<<"/", "a", "p", "p", "/", "l", "a", "y", "o", "u", "t", ".", "t", "s", "x">>} \cup {dir \o <<"/", "p", "a", "g", "e", ".", "t", "s", "x">> : dir \in dirs}
                         \cup {dir \o <<"/", "r", "o", "u", "t", "e", ".", "t", "s">> : dir \in dirs} :
        dirs \in SUBSET TwinDirectories}

\* handleRequest's call of resolveAppRouteHandler(pathname), and what
\* resolveAppRoute gives for the same pathname on the same tree
ResolveAppRouteHandler(pathname) ==
    /\ UNCHANGED nonRequest
    /\ useAppRouter
    /\ resolved = NoResolution
    /\ resolved' = [resolver |-> "route", pathname |-> pathname,
                    page |-> resolveAppRouteHandler(pathname),
                    route |-> resolveAppRoute(pathname)]
    /\ UNCHANGED <<project, useAppRouter, assetPrefix, basePath, env, plain, last,
                   nSetEnv, listing>>

InitTwin ==
    /\ HandlerStart
    /\ CacheParked
    /\ \E proj \in TwinTrees, order \in {"forward", "backward"} :
            Constructed(proj, order, NoOption, NoOption, [k \in EnvKeys |-> Undefined])

NextTwin == \E pathname \in RoutePaths : ResolveAppRouteHandler(pathname)

SpecTwin == InitTwin /\ [][NextTwin]_vars

\* Trees with convention files: a root page, and any of a nested page, a
\* page in a route group, and loading / error / not-found files at several
\* heights above them
ConventionTrees ==
    {{<<"/", "a", "p", "p", "/", "p", "a", "g", "e", ".", "t", "s", "x">>} \cup extra : extra \in
        SUBSET {<<"/", "a", "p", "p", "/", "a", "/", "b", "/", "p", "a", "g", "e", ".", "t", "s", "x">>, <<"/", "a", "p", "p", "/", "(", "g", ")", "/", "c", "/", "p", "a", "g", "e", ".", "t", "s", "x">>, <<"/", "a", "p", "p", "/", "l", "o", "a", "d", "i", "n", "g", ".", "t", "s", "x">>,
                <<"/", "a", "p", "p", "/", "a", "/", "l", "o", "a", "d", "i", "n", "g", ".", "t", "s", "x">>, <<"/", "a", "p", "p", "/", "a", "/", "b", "/", "l", "o", "a", "d", "i", "n", "g", ".", "t", "s", "x">>, <<"/", "a", "p", "p", "/", "a", "/", "b", "/", "l", "o", "a", "d", "i", "n", "g", ".", "j", "s", "x">>,
                <<"/", "a", "p", "p", "/", "n", "o", "t", "-", "f", "o", "u", "n", "d", ".", "t", "s", "x">>, <<"/", "a", "p", "p", "/", "(", "g", ")", "/", "n", "o", "t", "-", "f", "o", "u", "n", "d", ".", "t", "s", "x">>, <<"/", "a", "p", "p", "/", "(", "g", ")", "/", "c", "/", "e", "r", "r", "o", "r", ".", "t", "s", "x">>}}

InitConventions ==
    /\ HandlerStart
    /\ CacheParked
    /\ \E proj \in ConventionTrees :
            Constructed(proj, "forward", NoOption, NoOption, [k \in EnvKeys |-> Undefined])

NextConventions == \E pathname \in RoutePaths : ResolveAppRoute(pathname)

SpecConventions == InitConventions /\ [][NextConventions]_vars

(***************************************************************************)
(* The app shell in the browser: the inline module script that             *)
(* generateAppRouterHtml writes (getAppPageModulePath, getLayoutPaths,     *)
(* loadPage, loadLayouts, extractRouteParams, Router)                      *)
(***************************************************************************)
\* const virtualBase = '/__virtual__/<port>'
virtualBase == VirtualPrefix

\* route.replace(/^\/+/, '/'): a run of leading slashes becomes one
RECURSIVE CollapseLeadingSlashes(_)
CollapseLeadingSlashes(route) ==
    IF StartsWith(route, <<"/", "/">>) THEN CollapseLeadingSlashes(Tail(route)) ELSE route

\* the route of a location: the virtual base removed, leading slashes
\* collapsed, '/' for the empty string
clientRoute(pathname) ==
    LET route == IF StartsWith(pathname, virtualBase)
                 THEN Slice(pathname, Len(virtualBase)) ELSE pathname
    IN  OrSlash(CollapseLeadingSlashes(route))

getAppPageModulePath(pathname) ==
    LET route == clientRoute(pathname)
        pagePath == IF route = <<"/">> THEN <<"/", "a", "p", "p", "/", "p", "a", "g", "e">> ELSE <<"/", "a", "p", "p">> \o route \o <<"/", "p", "a", "g", "e">>
    IN  virtualBase \o <<"/", "_", "n", "e", "x", "t", "/", "a", "p", "p">> \o pagePath \o <<".", "j", "s">>

\* the layout URLs from the root to the route: one per URL segment
RECURSIVE LayoutPathsBelow(_, _)
LayoutPathsBelow(currentPath, segments) ==
    IF segments = <<>> THEN <<>>
    ELSE LET next == currentPath \o <<"/">> \o Head(segments)
         IN  <<virtualBase \o <<"/", "_", "n", "e", "x", "t", "/", "a", "p", "p">> \o next \o <<"/", "l", "a", "y", "o", "u", "t", ".", "j", "s">>>>
                 \o LayoutPathsBelow(next, Tail(segments))

getLayoutPaths(pathname) ==
    LET route == clientRoute(pathname)
    IN  <<virtualBase \o <<"/", "_", "n", "e", "x", "t", "/", "a", "p", "p", "/", "a", "p", "p", "/", "l", "a", "y", "o", "u", "t", ".", "j", "s">>>>
            \o (IF route # <<"/">> THEN LayoutPathsBelow(<<"/", "a", "p", "p">>, Segments(route)) ELSE <<>>)

\* await import(url): the request reaches handleRequest through the service
\* worker; the module is the transform of the file served, the import fails
\* (Null) on any other status.  A module is named by its source file.
importModule(url) ==
    LET reply == handleRequestResult(url)
    IN  IF reply.statusCode = 200 THEN reply.file ELSE Null

\* loadPage: module.default, null when the import fails
loadPage(pathname) == importModule(getAppPageModulePath(pathname))

\* loadLayouts: the layouts whose import succeeds, in the order of the URLs
\* (layoutCache holds what an earlier import of the same URL gave)
loadLayouts(pathname) ==
    LET urls == getLayoutPaths(pathname)
        modules == [i \in DOMAIN urls |-> importModule(urls[i])]
    IN  SelectSeq(modules, LAMBDA module : module # Null)

\* extractRouteParams: info.params || {} of the route-info endpoint
extractRouteParams(pathname) ==
    handleRequestResult(virtualBase \o RouteInfoQuery(encodeURIComponent(clientRoute(pathname)))).info.params

\* The trees the shell is opened on: a root layout and page, and any of a
\* route group with a layout and a page, a nested static page, a dynamic
\* segment with a layout and a page
ShellTrees ==
    {{<<"/", "a", "p", "p", "/", "l", "a", "y", "o", "u", "t", ".", "t", "s", "x">>, <<"/", "a", "p", "p", "/", "p", "a", "g", "e", ".", "t", "s", "x">>} \cup extra : extra \in
        SUBSET {<<"/", "a", "p", "p", "/", "(", "g", ")", "/", "l", "a", "y", "o", "u", "t", ".", "t", "s", "x">>, <<"/", "a", "p", "p", "/", "(", "g", ")", "/", "a", "/", "p", "a", "g", "e", ".", "t", "s", "x">>, <<"/", "a", "p", "p", "/", "a", "/", "b", "/", "p", "a", "g", "e", ".", "t", "s", "x">>,
                <<"/", "a", "p", "p", "/", "a", "/", "l", "a", "y", "o", "u", "t", ".", "t", "s", "x">>, <<"/", "a", "p", "p", "/", "[", "i", "d", "]", "/", "l", "a", "y", "o", "u", "t", ".", "t", "s", "x">>, <<"/", "a", "p", "p", "/", "[", "i", "d", "]", "/", "p", "a", "g", "e", ".", "t", "s", "x">>}}
ShellPaths == {<<"/">>, <<"/", "a">>, <<"/", "a", "/", "b">>, <<"/", "c">>}

\* GET <pathname> of an app-mode project whose route resolves: the shell is
\* served (handleAppRouterPage), its HMR client script runs and its Router
\* mounts; the mount effect starts loadPage and loadLayouts of
\* window.location.pathname.  refresh: window.$RefreshRuntime$ got defined.
ShellOpen(pathname, refresh) ==
    /\ UNCHANGED <<hvars, cvars, avars, wvars>>
    /\ hmr' = [NoHmrClient EXCEPT !.ready = TRUE, !.refresh = refresh]
    /\ useAppRouter
    /\ router = NoRouter
    /\ resolveAppRoute(pathname) # NoRoute
    /\ resolved' = [resolver |-> "app", pathname |-> pathname,
                    page |-> resolveAppRoute(pathname).page,
                    route |-> resolveAppRoute(pathname)]
    /\ router' = [NoRouter EXCEPT
                    !.location = virtualBase \o pathname,
                    !.path = virtualBase \o pathname,
                    !.params = resolveAppRoute(pathname).params,
                    !.loads = <<[path |-> virtualBase \o pathname, kind |-> "mount"]>>]
    /\ UNCHANGED <<project, useAppRouter, assetPrefix, basePath, env, plain, last,
                   nSetEnv, listing>>

\* popstate after the location changed to <pathname>: handleNavigation up to
\* its await
Navigate(pathname) ==
    /\ UNCHANGED <<hvars, cvars, rvars, avars, wvars, hmr>>
    /\ router # NoRouter
    /\ router.navigations < MaxNavigations
    /\ LET newPath == virtualBase \o pathname
       IN  router' = IF newPath # router.path
                     THEN [router EXCEPT
                             !.location = newPath,
                             !.path = newPath,
                             !.navigations = @ + 1,
                             !.loads = Append(@, [path |-> newPath, kind |-> "navigation"])]
                     ELSE [router EXCEPT !.location = newPath, !.navigations = @ + 1]

\* the Promise.all of a load settles: the continuation sets the params (a
\* navigation only), the page when one was loaded, and the layouts
LoadCompletes(i) ==
    /\ UNCHANGED <<hvars, cvars, rvars, avars, wvars, hmr>>
    /\ i \in DOMAIN router.loads
    /\ LET load == router.loads[i]
           reply == handleRequestResult(getAppPageModulePath(load.path))
           P == loadPage(load.path)
           L == loadLayouts(load.path)
       IN  router' = [router EXCEPT
                        !.params = IF load.kind = "navigation"
                                   THEN extractRouteParams(load.path) ELSE @,
                        !.Page = IF P # Null THEN P ELSE @,
                        !.layouts = L,
                        !.pageReply = [path |-> load.path,
                                       statusCode |-> reply.statusCode,
                                       kind |-> reply.kind, file |-> reply.file],
                        !.loads = RemoveAt(@, i)]

InitShell ==
    /\ HandlerStart
    /\ CacheParked
    /\ \E proj \in ShellTrees :
            Constructed(proj, "forward", NoOption, NoOption, [k \in EnvKeys |-> Undefined])

NextShell ==
    \/ \E pathname \in ShellPaths : ShellOpen(pathname, TRUE)
    \/ \E pathname \in ShellPaths : Navigate(pathname)
    \/ \E i \in 1 .. MaxNavigations + 1 : LoadCompletes(i)

SpecShell == InitShell /\ [][NextShell]_vars

(***************************************************************************)
(* The HMR client of the shell: HMR_CLIENT_SCRIPT (message listener,        *)
(* handleJSUpdate).  pendingUpdates is a Map: its entries in insertion      *)
(* order; a batch is one run of the timer callback, suspended at the        *)
(* `await import` of the entry its iterator gave last.  No module has       *)
(* registered a dispose callback.                                           *)
(***************************************************************************)
\* the paths of the update messages: with and without the leading slash
HmrPaths == {<<"/", "p", "a", "g", "e", "s", "/", "a", ".", "j", "s", "x">>, <<"p", "a", "g", "e", "s", "/", "b", ".", "j", "s", "x">>}

\* path.startsWith('/') ? path : '/' + path
normalizedPath(path) == IF StartsWith(path, <<"/">>) THEN path ELSE <<"/">> \o path

\* pendingUpdates.set(key, value): the value of a present key is replaced
\* where the key stands, a new key is added at the end
MapSet(map, key, value) ==
    IF \E i \in DOMAIN map : map[i].path = key
    THEN [i \in DOMAIN map |-> IF map[i].path = key THEN [path |-> key, ts |-> value] ELSE map[i]]
    ELSE Append(map, [path |-> key, ts |-> value])

\* a JS update message {type: 'update', path, timestamp}: handleJSUpdate
HmrUpdate(path) ==
    /\ UNCHANGED <<hvars, cvars, rvars, avars, wvars, router>>
    /\ hmr.ready /\ ~hmr.reloaded
    /\ Len(hmr.received) < MaxUpdates
    /\ LET timestamp == Len(hmr.received) + 1
           key == normalizedPath(path)
           pending == MapSet(hmr.pending, key, timestamp)
           got == Append(hmr.received, [path |-> key, ts |-> timestamp])
       IN  hmr' = IF hmr.refresh
                  THEN [hmr EXCEPT !.received = got,
                                   !.pending = pending,
                                   !.timers = hmr.timers + (IF Len(pending) = 1 THEN 1 ELSE 0)]
                  \* React Refresh not available: location.reload()
                  ELSE [hmr EXCEPT !.received = got, !.reloaded = TRUE]

\* pendingUpdates.clear(): the iterators of the other batches go on with the
\* entries added afterwards
Cleared(h, b) ==
    [h EXCEPT !.pending = <<>>,
              !.batches = [j \in DOMAIN RemoveAt(h.batches, b) |->
                              [RemoveAt(h.batches, b)[j] EXCEPT !.pos = 0]]]

\* the iterator of a batch gives its next entry and the batch awaits the
\* import of it, or it is done: performReactRefresh, pendingUpdates.clear()
Advance(h, b) ==
    LET pos == h.batches[b].pos
    IN  IF pos < Len(h.pending)
        THEN [h EXCEPT !.batches[b] = [pos |-> pos + 1, path |-> h.pending[pos + 1].path,
                                       ts |-> h.pending[pos + 1].ts]]
        ELSE Cleared(h, b)

\* the 30 ms timer fires: the callback runs up to its first await
TimerFires ==
    /\ UNCHANGED <<hvars, cvars, rvars, avars, wvars, router>>
    /\ ~hmr.reloaded
    /\ hmr.timers > 0
    /\ LET started == [hmr EXCEPT !.timers = @ - 1,
                                  !.batches = Append(@, [pos |-> 0, path |-> <<>>, ts |-> 0])]
       IN  hmr' = Advance(started, Len(started.batches))

\* `await import(moduleUrl)` of a batch settles: the loop goes on, or the
\* catch clears the map and reloads the page
ImportSettles(b, ok) ==
    /\ UNCHANGED <<hvars, cvars, rvars, avars, wvars, router>>
    /\ ~hmr.reloaded
    /\ b \in DOMAIN hmr.batches
    /\ hmr' = IF ok
              THEN Advance([hmr EXCEPT !.applied = Append(@, [path |-> hmr.batches[b].path,
                                                            ts |-> hmr.batches[b].ts])], b)
              ELSE [hmr EXCEPT !.pending = <<>>, !.reloaded = TRUE]

InitHmr ==
    /\ HandlerStart
    /\ CacheParked
    /\ Constructed({<<"/", "a", "p", "p", "/", "l", "a", "y", "o", "u", "t", ".", "t", "s", "x">>, <<"/", "a", "p", "p", "/", "p", "a", "g", "e", ".", "t", "s", "x">>}, "forward", NoOption, NoOption,
                   [k \in EnvKeys |-> Undefined])

NextHmr ==
    \/ \E refresh \in BOOLEAN : ShellOpen(<<"/">>, refresh)
    \/ \E path \in HmrPaths : HmrUpdate(path)
    \/ TimerFires
    \/ \E b \in 1 .. MaxUpdates, ok \in BOOLEAN : ImportSettles(b, ok)

SpecHmr == InitHmr /\ [][NextHmr]_vars

(***************************************************************************)
(* The web-style handler of a route.<ext> file: handleAppRouteHandler      *)
(***************************************************************************)
\* The app trees of the web-style handlers: an app root page and every set
\* of these route and page files.
RouteHandlerTrees ==
    {{<<"/", "a", "p", "p", "/", "p", "a", "g", "e", ".", "t", "s", "x">>} \cup extra : extra \in
        SUBSET {<<"/", "a", "p", "p", "/", "a", "p", "i", "/", "r", "/", "r", "o", "u", "t", "e", ".", "t", "s">>, <<"/", "a", "p", "p", "/", "a", "p", "i", "/", "[", "i", "d", "]", "/", "r", "o", "u", "t", "e", ".", "t", "s">>,
                <<"/", "a", "p", "p", "/", "a", "p", "i", "/", "[", "i", "d", "]", "/", "p", "a", "g", "e", ".", "t", "s", "x">>, <<"/", "a", "p", "p", "/", "(", "g", ")", "/", "a", "p", "i", "/", "[", "i", "d", "]", "/", "r", "o", "u", "t", "e", ".", "t", "s">>,
                <<"/", "a", "p", "p", "/", "[", ".", ".", ".", "s", "]", "/", "p", "a", "g", "e", ".", "t", "s", "x">>}}
RouteHandlerPaths == {<<"/", "a", "p", "i", "/", "r">>, <<"/", "a", "p", "i", "/", "x">>}
\* the files another request's handler creates or removes meanwhile
WrittenFiles == {<<"/", "a", "p", "p", "/", "a", "p", "i", "/", "[", "i", "d", "]", "/", "p", "a", "g", "e", ".", "t", "s", "x">>, <<"/", "a", "p", "p", "/", "[", ".", ".", ".", "s", "]", "/", "p", "a", "g", "e", ".", "t", "s", "x">>}
\* what can fail before the handler is looked up: transformApiHandler, the
\* module body
RoutePreps == {"ok", "transformError", "moduleThrows"}
\* what the handler's promise settles to
RouteOutcomes == {"Response", "object", "text", "rejects"}

MethodNotAllowed(method) == AppReply(405, JsonCT, <<"error", "Method", method, "not allowed">>)
RouteError == AppReply(500, JsonCT, <<"error", "message">>)

\* module.exports[methodUpper] || module.exports[methodUpper.toLowerCase()]
HandlerExport(module, method) ==
    LET methodUpper == toUpperCase(method)
    IN  IF module[methodUpper] # "none" THEN methodUpper ELSE toLowerCase(methodUpper)

\* typeof handler !== 'function'
NotAFunctionOnlyWhenAbsent(module, name) == module[name] = "none"

NotAFunction(module, name) == module[name] # "function"

\* handleRequest up to the route-handler rule, and handleAppRouteHandler up
\* to its first await: the rules are matched, the route file is resolved
\* and its source is read in one synchronous run
HandleAppRoute(method, pathname, module) ==
    /\ UNCHANGED <<hvars, cvars, rvars, wvars, svars>>
    /\ areq.pc = "idle"
    /\ Dispatch(pathname).kind = "app-route"
    /\ areq' = [areq EXCEPT !.pc = "loading", !.method = method,
                            !.pathname = pathname,
                            !.file = Dispatch(pathname).file,
                            !.module = module,
                            !.seen = <<project.files>>]

\* handleAppRouteHandler from the end of its awaits (transformApiHandler, the
\* shim imports) to `await handler(...)`: the module is evaluated, the export
\* of the method is looked up, the params are resolved, the handler is called
EvaluateRouteModule(prep, kind) ==
    /\ UNCHANGED <<hvars, cvars, rvars, wvars, svars>>
    /\ areq.pc = "loading"
    /\ LET name == HandlerExport(areq.module, areq.method)
           route == resolveAppRoute(areq.pathname)
       IN  IF prep # "ok"
           THEN areq' = [areq EXCEPT !.pc = "done", !.prep = prep, !.reply = RouteError]
           ELSE IF NotAFunction(areq.module, name)
           THEN areq' = [areq EXCEPT !.pc = "done",
                                     !.reply = MethodNotAllowed(areq.method)]
           ELSE areq' = [areq EXCEPT !.pc = "called",
                                     !.seen = Append(areq.seen, project.files),
                                     !.params = route.params,
                                     !.called = Append(areq.called, name),
                                     !.promise = kind]

\* the handler's promise settles, and the Response is converted
RouteHandlerSettles(outcome) ==
    /\ UNCHANGED <<hvars, cvars, rvars, wvars, svars>>
    /\ areq.pc = "called"
    /\ areq.promise # "never"
    /\ areq' = [areq EXCEPT !.pc = "done",
                            !.reply = IF outcome = "rejects" THEN RouteError
                                      ELSE IF outcome = "object"
                                      THEN AppReply(200, JsonCT, <<"json">>)
                                      ELSE IF outcome = "text"
                                      THEN AppReply(200, "text/plain; charset=utf-8", <<"text">>)
                                      ELSE AppReply(200, NoHeader, <<"response">>)]

\* another in-flight request's handler creates or removes a file
VfsWrite(file) ==
    /\ UNCHANGED <<hvars, cvars, wvars, svars>>
    /\ areq.writes < MaxWrites
    /\ LET files == IF file \in project.files THEN project.files \ {file}
                    ELSE project.files \cup {file}
       IN  project' = [files |-> files, directories |-> DirectoriesOf(files),
                       entries |-> [dir \in DirectoriesOf(files) |->
                                       EntriesOf(files, listing, dir)]]
    /\ areq' = [areq EXCEPT !.writes = areq.writes + 1]
    /\ UNCHANGED <<useAppRouter, assetPrefix, basePath, env, plain, last, nSetEnv,
                   listing, resolved>>

InitAppRoute ==
    /\ HandlerStart
    /\ CacheParked
    /\ \E proj \in RouteHandlerTrees, order \in {"forward", "backward"} :
            Constructed(proj, order, NoOption, NoOption, [k \in EnvKeys |-> Undefined])

NextAppRoute ==
    \/ \E method \in Methods, pathname \in RouteHandlerPaths, module \in RouteModules :
            HandleAppRoute(method, pathname, module)
    \/ \E prep \in RoutePreps, kind \in ReturnKinds : EvaluateRouteModule(prep, kind)
    \/ \E outcome \in RouteOutcomes : RouteHandlerSettles(outcome)
    \/ \E file \in WrittenFiles : VfsWrite(file)

SpecAppRoute == InitAppRoute /\ [][NextAppRoute]_vars

\* One project, and no VFS write: the handler's promise and the event loop.
\* The event loop runs every ready continuation; a promise that settles does
\* settle.  No timer is armed around a web-style handler.
InitRouteTimeout ==
    /\ HandlerStart
    /\ CacheParked
    /\ Constructed({<<"/", "a", "p", "p", "/", "p", "a", "g", "e", ".", "t", "s", "x">>, <<"/", "a", "p", "p", "/", "a", "p", "i", "/", "r", "/", "r", "o", "u", "t", "e", ".", "t", "s">>, <<"/", "a", "p", "p", "/", "a", "p", "i", "/", "[", "i", "d", "]", "/", "r", "o", "u", "t", "e", ".", "t", "s">>},
                   "forward", NoOption, NoOption, [k \in EnvKeys |-> Undefined])

NextRouteTimeout ==
    \/ \E method \in Methods, pathname \in RouteHandlerPaths, module \in RouteModules :
            HandleAppRoute(method, pathname, module)
    \/ \E prep \in RoutePreps, kind \in ReturnKinds : EvaluateRouteModule(prep, kind)
    \/ \E outcome \in RouteOutcomes : RouteHandlerSettles(outcome)

FairSpecRouteTimeout ==
    /\ InitRouteTimeout
    /\ [][NextRouteTimeout]_vars
    /\ WF_vars(\E prep \in RoutePreps, kind \in ReturnKinds : EvaluateRouteModule(prep, kind))
    /\ WF_vars(\E outcome \in RouteOutcomes : RouteHandlerSettles(outcome))

(***************************************************************************)
(* The HMR notifier: startWatching / handleFileChange                      *)
(***************************************************************************)
\* The change events a watcher's callback receives: (eventType, filename).
\* The filename is relative to the watched directory or, absolute, the whole
\* path; it can be missing.
ChangeEvent(eventType, name, absolute) ==
    [eventType |-> eventType, name |-> name, absolute |-> absolute]
ChangeEvents ==
    {ChangeEvent("change", <<"i", "n", "d", "e", "x", ".", "j", "s", "x">>, FALSE), ChangeEvent("change", <<"i", "n", "d", "e", "x", ".", "j", "s", "x">>, TRUE),
     ChangeEvent("change", <<"s", ".", "c", "s", "s">>, FALSE), ChangeEvent("change", <<"x", ".", "p", "n", "g">>, FALSE),
     ChangeEvent("change", <<"x", ".", "p", "n", "g">>, TRUE), ChangeEvent("change", <<>>, FALSE),
     ChangeEvent("rename", <<"i", "n", "d", "e", "x", ".", "j", "s", "x">>, FALSE)}
filenameOf(dir, ev) ==
    IF ev.absolute THEN dir \o <<"/">> \o ev.name ELSE ev.name

\* handleFileChange: the update of a changed path
updateTypeCssOnly(path) ==
    IF EndsWith(path, <<".", "c", "s", "s">>) THEN "update" ELSE "full-reload"

updateType(path) ==
    LET isCSS == EndsWith(path, <<".", "c", "s", "s">>)
        \* /\.(jsx?|tsx?)$/
        isJS == \/ EndsWith(path, <<".", "j", "s">>) \/ EndsWith(path, <<".", "j", "s", "x">>)
                \/ EndsWith(path, <<".", "t", "s">>) \/ EndsWith(path, <<".", "t", "s", "x">>)
    IN  IF isCSS \/ isJS THEN "update" ELSE "full-reload"

\* emitHMRUpdate(update), and postMessage to the target window when one is set
handleFileChange(w, path) ==
    LET update == [type |-> updateType(path), path |-> path,
                   timestamp |-> Len(w.changes) + 1]
    IN  [w EXCEPT !.log = Append(w.log, update),
                  !.posted = IF w.target THEN Append(w.posted, update) ELSE w.posted]

\* the callbacks startWatching registers
fullPathOf(dir, filename) ==
    IF dir = publicDir THEN publicDir \o <<"/">> \o filename
    ELSE IF StartsWith(filename, <<"/">>) THEN filename
    ELSE dir \o <<"/">> \o filename

\* startWatching: a watcher of the pages directory, of the app directory in
\* app mode, of the public directory; vfs.watch may throw for a directory
\* that does not exist, and that directory is then not watched
StartWatching(failed) ==
    /\ UNCHANGED <<hvars, cvars, rvars, avars, svars>>
    /\ watch.starts < MaxStarts
    /\ \A dir \in failed : ~exists(dir)
    /\ LET dirs == <<pagesDir>> \o (IF useAppRouter THEN <<appDir>> ELSE <<>>)
                   \o <<publicDir>>
           watchers == SelectSeq(dirs, LAMBDA dir : dir \notin failed)
       IN  watch' = [watch EXCEPT
                !.watchers = watch.watchers \o watchers,
                !.watcherCleanup = Len(watch.watchers) + 1
                                       .. Len(watch.watchers) + Len(watchers),
                !.stopped = FALSE,
                !.starts = watch.starts + 1]

\* setHMRTarget
SetHMRTarget ==
    /\ UNCHANGED <<hvars, cvars, rvars, avars, svars>>
    /\ ~watch.target
    /\ watch' = [watch EXCEPT !.target = TRUE, !.stopped = FALSE]

\* stop: the stored cleanup closes its watchers, the target window is dropped
Stop ==
    /\ UNCHANGED <<hvars, cvars, rvars, avars, svars>>
    /\ watch' = [watch EXCEPT
            !.closed = watch.closed \cup watch.watcherCleanup,
            !.watcherCleanup = {},
            !.target = FALSE,
            !.stopped = TRUE]

\* the VFS calls the callback of the i-th watcher with a change event
WatchEvent(i, ev) ==
    /\ UNCHANGED <<hvars, cvars, rvars, avars, svars>>
    /\ i \in DOMAIN watch.watchers
    /\ i \notin watch.closed
    /\ Len(watch.changes) < MaxEvents
    /\ LET dir == watch.watchers[i]
           filename == filenameOf(dir, ev)
           seen == [watch EXCEPT !.changes =
                        Append(watch.changes,
                               [dir |-> dir, eventType |-> ev.eventType,
                                filename |-> filename, name |-> ev.name])]
       IN  watch' = IF ev.eventType = "change" /\ filename # <<>>
                    THEN [handleFileChange(watch, fullPathOf(dir, filename))
                              EXCEPT !.changes = seen.changes]
                    ELSE seen

InitWatch ==
    /\ HandlerStart
    /\ CacheParked
    /\ \E proj \in Projects :
            Constructed(proj, "forward", NoOption, NoOption, [k \in EnvKeys |-> Undefined])

NextWatch ==
    \/ \E failed \in SUBSET {pagesDir, appDir, publicDir} : StartWatching(failed)
    \/ SetHMRTarget
    \/ \E i \in 1 .. 3 * MaxStarts, ev \in ChangeEvents : WatchEvent(i, ev)

SpecWatch == InitWatch /\ [][NextWatch]_vars

\* The transform cache of a server that watches its directories: start() has
\* registered the watchers of a pages-mode project
StartedPagesServer(starts) ==
    /\ HandlerStart
    /\ CacheParked
    /\ project = [files |-> PagesProject, directories |-> DirectoriesOf(PagesProject),
                  entries |-> [dir \in DirectoriesOf(PagesProject) |->
                                  EntriesOf(PagesProject, "forward", dir)]]
    /\ listing = "forward"
    /\ useAppRouter = FALSE
    /\ assetPrefix = <<>>
    /\ basePath = <<>>
    /\ env = [k \in EnvKeys |-> Undefined]
    /\ plain = NoRequest
    /\ last = NoRequest
    /\ nSetEnv = 0
    /\ resolved = NoResolution
    /\ areq = NoAppRequest
    /\ watch = [NoWatch EXCEPT !.watchers = <<pagesDir, publicDir>>,
                               !.watcherCleanup = {1, 2}, !.starts = starts]
    /\ router = NoRouter
    /\ hmr = NoHmrClient

InitCacheWatch == StartedPagesServer(MaxStarts)

NextCacheWatch ==
    \/ \E f \in Files : BeginTransform(f)
    \/ \E i \in 1 .. MaxInflight : FinishTransform(i)
    \/ \E f \in Files, c \in {SrcAa, SrcBa} : EditFile(f, c)
    \/ WatchEvent(1, ChangeEvent("change", <<"i", "n", "d", "e", "x", ".", "j", "s", "x">>, FALSE))

SpecCacheWatch == InitCacheWatch /\ [][NextCacheWatch]_vars

\* The life cycle of the notifier of a started server: further startWatching
\* calls, setHMRTarget, stop, and the change events of the watchers still open
InitStop == StartedPagesServer(0)

NextStop ==
    \/ \E failed \in SUBSET {pagesDir, appDir, publicDir} : StartWatching(failed)
    \/ SetHMRTarget
    \/ Stop
    \/ \E i \in 1 .. 3 * (MaxStarts + 1), ev \in ChangeEvents : WatchEvent(i, ev)

SpecStop == InitStop /\ [][NextStop]_vars

(***************************************************************************)
(* Claims about the streaming callbacks and the handler timeout            *)
(***************************************************************************)
Count(log, e) == Cardinality({i \in DOMAIN log : log[i].ev = e})

\* C1: over a whole streaming request onStart is invoked exactly once: never
\* more than once, and once when handleStreamingRequest has returned
C1_OnStartExactlyOnce ==
    (mode = "streaming" /\ pc # "idle") =>
        /\ Count(cb, "start") <= 1
        /\ (pc = "done" => Count(cb, "start") = 1)

\* C2: every onChunk call is preceded by an onStart call
C2_StartBeforeEveryChunk ==
    \A j \in DOMAIN cb :
        cb[j].ev = "chunk" => \E i \in 1..(j - 1) : cb[i].ev = "start"

\* C2 witness: the handler's own first output reached onChunk after onStart(200)
C2_Witness ==
    /\ mode = "streaming"
    /\ hlive
    /\ Len(cb) >= 2
    /\ cb[1] = StartEv(200)
    /\ cb[2].ev = "chunk"

\* C3: over a whole streaming request onEnd is invoked exactly once
C3_OnEndExactlyOnce ==
    (mode = "streaming" /\ pc # "idle") =>
        /\ Count(cb, "end") <= 1
        /\ (pc = "done" => Count(cb, "end") = 1)

\* C4: no onChunk call happens after onEnd
C4_NoChunkAfterEnd ==
    \A i, j \in DOMAIN cb :
        (i < j /\ cb[i].ev = "end") => cb[j].ev # "chunk"

\* C10: a legacy handler that never ends the response gets a 500 from
\* handleRequest in the end: once the handler has been invoked, either the
\* response is ended or the request returns 500
C10_NeverEndingHandlerGets500 ==
    (mode = "unary" /\ hlive) ~>
        (res.ended \/ (pc = "done" /\ response.statusCode = 500))

(***************************************************************************)
(* Claims about the transform cache                                        *)
(***************************************************************************)
IsHit(resp) == resp.xcache = "hit"

C7_PrefixedRequestSameReply ==
    \A form \in Forms \ {"plain"}, P \in PlainPaths :
        (FormApplies(form) /\ last.url = Prefixed(form, P) /\ plain.url = P)
            => last.reply = plain.reply

IsPublicKey(key) ==
    /\ Len(key) >= Len(NextPublicPrefix)
    /\ \A i \in 1 .. Len(NextPublicPrefix) : key[i] = NextPublicPrefix[i]

C9_HandleRequestNeverRejects ==
    last # NoRequest =>
        /\ last.reply # Rejected
        /\ last.reply.statusCode \in 100 .. 599

(***************************************************************************)
(* Claims about the decision order and the page route                      *)
(***************************************************************************)
\* whether each rule of the decision order matches the path, in the order of
\* the rules
RuleMatches(pathname) ==
    <<StartsWith(pathname, <<"/", "_", "n", "e", "x", "t", "/", "s", "h", "i", "m", "s", "/">>),
      pathname = <<"/", "_", "n", "e", "x", "t", "/", "r", "o", "u", "t", "e", "-", "i", "n", "f", "o">>,
      StartsWith(pathname, <<"/", "_", "n", "e", "x", "t", "/", "p", "a", "g", "e", "s", "/">>),
      StartsWith(pathname, <<"/", "_", "n", "e", "x", "t", "/", "a", "p", "p", "/">>),
      StartsWith(pathname, <<"/", "_", "n", "e", "x", "t", "/", "s", "t", "a", "t", "i", "c", "/">>),
      useAppRouter /\ resolveAppRouteHandler(pathname) # Null,
      StartsWith(pathname, <<"/", "a", "p", "i", "/">>),
      exists(publicDir \o pathname) /\ ~isDirectory(publicDir \o pathname),
      needsTransform(pathname) /\ exists(pathname),
      resolveFileWithExtension(pathname) # Null,
      exists(pathname) /\ ~isDirectory(pathname),
      TRUE>>

FirstRule(pathname) ==
    CHOOSE i \in 1 .. 12 :
        RuleMatches(pathname)[i] /\ \A j \in 1 .. i - 1 : ~RuleMatches(pathname)[j]

\* what rule i serves for the path
RuleReply(i, pathname) ==
    CASE i = 1 -> serveNextShim(pathname)
      [] i = 2 -> serveRouteInfo(<<"/">>)
      [] i = 3 -> servePageComponent(pathname)
      [] i = 4 -> serveAppComponent(pathname)
      [] i = 5 -> serveStaticAsset(pathname)
      [] i = 6 -> handleAppRouteHandler(resolveAppRouteHandler(pathname))
      [] i = 7 -> handleApiRouteReply(pathname)
      [] i = 8 -> serveFile(publicDir \o pathname)
      [] i = 9 -> transformAndServe(pathname)
      [] i = 10 -> IF needsTransform(resolveFileWithExtension(pathname))
                   THEN transformAndServe(resolveFileWithExtension(pathname))
                   ELSE serveFile(resolveFileWithExtension(pathname))
      [] i = 11 -> serveFile(pathname)
      [] i = 12 -> handlePageRoute(pathname)

\* C11: a request is served by the first rule of the decision order that
\* matches its path: the reply is what that rule serves, whatever later rules
\* match as well
C11_FirstMatchingRuleServes ==
    last # NoRequest =>
        last.reply = RuleReply(FirstRule(last.url), last.url)

\* a request that two rules match (/api/ and a public file), served by the
\* earlier one
C11_Witness ==
    /\ last # NoRequest
    /\ Cardinality({i \in 1 .. 11 : RuleMatches(last.url)[i]}) >= 2
    /\ RuleMatches(last.url)[7] /\ RuleMatches(last.url)[8]
    /\ last.reply.kind = "api"

\* C12: a path that reaches the page route (no shim, file or handler rule
\* matches it) gets a 200 HTML document or a 404 HTML document
C12_PageRouteRepliesHtml ==
    (last # NoRequest /\ FirstRule(last.url) = 12) =>
        \/ last.reply.statusCode = 200 /\ last.reply.kind \in {"pages-html", "app-html"}
        \/ last.reply.statusCode = 404
              /\ last.reply.kind \in {"pages-html", "app-html", "default-404"}

\* C13: on the page route a resolution that fails gets status 404 (the shell
\* of the /not-found resolution in app mode, of the /404 page in pages mode,
\* else the built-in page) and one that succeeds the 200 shell of the route
C13_PageRouteStatus ==
    (last # NoRequest /\ FirstRule(last.url) = 12) =>
        IF useAppRouter
        THEN IF resolveAppRoute(last.url) # NoRoute
             THEN last.reply = Reply(200, "app-html", resolveAppRoute(last.url).page,
                                     generateEnvScript)
             ELSE /\ last.reply.statusCode = 404
                  /\ IF resolveAppRoute(<<"/", "n", "o", "t", "-", "f", "o", "u", "n", "d">>) # NoRoute
                     THEN /\ last.reply.kind = "app-html"
                          /\ last.reply.file = resolveAppRoute(<<"/", "n", "o", "t", "-", "f", "o", "u", "n", "d">>).page
                     ELSE last.reply.kind = "default-404"
        ELSE IF resolvePageFile(last.url) # Null
             THEN last.reply = Reply(200, "pages-html", resolvePageFile(last.url),
                                     generateEnvScript)
             ELSE /\ last.reply.statusCode = 404
                  /\ IF resolvePageFile(<<"/", "4", "0", "4">>) # Null
                     THEN /\ last.reply.kind = "pages-html"
                          /\ last.reply.file = resolvePageFile(<<"/", "4", "0", "4">>)
                     ELSE last.reply.kind = "default-404"

(***************************************************************************)
(* Claims about the app-mode and pages-mode route resolvers                *)
(***************************************************************************)
\* the directory of a file, and whether a directory is another or above it
DirOf(path) ==
    SubSeq(path, 1, (CHOOSE i \in DOMAIN path :
                        path[i] = "/" /\ \A j \in i + 1 .. Len(path) : path[j] # "/") - 1)
Range(seq) == {seq[i] : i \in DOMAIN seq}
IsAbove(dir, other) == dir = other \/ StartsWith(other, dir \o <<"/">>)
IsLayout(path) ==
    \E i \in DOMAIN PageExtensions : EndsWith(path, <<"/", "l", "a", "y", "o", "u", "t">> \o PageExtensions[i])
Resolved(resolver) == resolved.resolver = resolver /\ resolved.page # Null

\* C14: the layouts of an app-mode resolution have no duplicates, run from
\* the outermost directory to the page's, and hold every layout file of every
\* directory from the app root to the page
C14_LayoutsOutermostFirstAndComplete ==
    Resolved("app") =>
        LET layouts == resolved.route.layouts
        IN  /\ \A i, j \in DOMAIN layouts : i # j => layouts[i] # layouts[j]
            /\ \A i \in DOMAIN layouts :
                  /\ IsLayout(layouts[i])
                  /\ IsAbove(DirOf(layouts[i]), DirOf(resolved.page))
                  /\ i < Len(layouts) => IsAbove(DirOf(layouts[i]), DirOf(layouts[i + 1]))
            /\ \A f \in project.files :
                  (IsLayout(f) /\ IsAbove(DirOf(f), DirOf(resolved.page)))
                      => \E i \in DOMAIN layouts : layouts[i] = f

\* C14, amended: as above, but of the layout files of a directory it is the
\* first in the order .jsx .tsx .js .ts that is sure to be included
C14_LayoutsOutermostFirstOnePerDirectory ==
    Resolved("app") =>
        LET layouts == resolved.route.layouts
            first(dir) == FirstExisting(WithExtensions(dir \o <<"/", "l", "a", "y", "o", "u", "t">>, PageExtensions))
        IN  /\ \A i, j \in DOMAIN layouts : i # j => layouts[i] # layouts[j]
            /\ \A i \in DOMAIN layouts :
                  /\ IsLayout(layouts[i])
                  /\ IsAbove(DirOf(layouts[i]), DirOf(resolved.page))
                  /\ i < Len(layouts) => IsAbove(DirOf(layouts[i]), DirOf(layouts[i + 1]))
            /\ \A dir \in project.directories :
                  (IsAbove(appDir, dir) /\ IsAbove(dir, DirOf(resolved.page))
                        /\ first(dir) # Null)
                      => \E i \in DOMAIN layouts : layouts[i] = first(dir)

\* a page inside a route group that has two layout files, resolved with the
\* root's layout and the group's first
C14_Witness ==
    /\ Resolved("app")
    /\ resolved.page = <<"/", "a", "p", "p", "/", "(", "g", ")", "/", "a", "/", "p", "a", "g", "e", ".", "t", "s", "x">>
    /\ <<"/", "a", "p", "p", "/", "(", "g", ")", "/", "l", "a", "y", "o", "u", "t", ".", "t", "s", "x">> \in project.files
    /\ resolved.route.layouts = <<<<"/", "a", "p", "p", "/", "l", "a", "y", "o", "u", "t", ".", "t", "s", "x">>, <<"/", "a", "p", "p", "/", "(", "g", ")", "/", "l", "a", "y", "o", "u", "t", ".", "j", "s", "x">>>>

\* P1 is a prefix directory of P2
IsPrefixDir(P1, P2) ==
    /\ Len(Segments(P1)) < Len(Segments(P2))
    /\ SubSeq(Segments(P2), 1, Len(Segments(P1))) = Segments(P1)

\* every element of a is in b, in the same relative order
IsOrderedSubset(a, b) ==
    /\ \A i \in DOMAIN a : \E k \in DOMAIN b : b[k] = a[i]
    /\ \A i, j \in DOMAIN a : i < j =>
          \E k, l \in DOMAIN b : k < l /\ b[k] = a[i] /\ b[l] = a[j]

\* C15: when P1 is a prefix directory of P2 and both resolve in app mode, the
\* layouts of P1 all appear among the layouts of P2, in the same order
C15_LayoutsMonotonic ==
    Resolved("app") =>
        \A P1 \in RoutePaths :
            (IsPrefixDir(P1, resolved.pathname) /\ resolveAppRoute(P1) # NoRoute)
                => IsOrderedSubset(resolveAppRoute(P1).layouts, resolved.route.layouts)

\* C15, amended: when moreover the directory of P1's page is the directory of
\* P2's page or above it, the layouts of P1 are the first layouts of P2
C15_LayoutsMonotonicAlongPageDirectories ==
    Resolved("app") =>
        \A P1 \in RoutePaths :
            (/\ IsPrefixDir(P1, resolved.pathname)
             /\ resolveAppRoute(P1) # NoRoute
             /\ IsAbove(DirOf(resolveAppRoute(P1).page), DirOf(resolved.page)))
                => LET l1 == resolveAppRoute(P1).layouts
                   IN  /\ Len(l1) <= Len(resolved.route.layouts)
                       /\ SubSeq(resolved.route.layouts, 1, Len(l1)) = l1

\* /a resolved inside the group below the root page: the root's layout, then
\* the group's
C15_Witness ==
    /\ Resolved("app")
    /\ resolved.pathname = <<"/", "a">>
    /\ resolveAppRoute(<<"/">>).layouts = <<<<"/", "a", "p", "p", "/", "l", "a", "y", "o", "u", "t", ".", "t", "s", "x">>>>
    /\ IsAbove(DirOf(resolveAppRoute(<<"/">>).page), DirOf(resolved.page))
    /\ resolved.route.layouts = <<<<"/", "a", "p", "p", "/", "l", "a", "y", "o", "u", "t", ".", "t", "s", "x">>, <<"/", "a", "p", "p", "/", "(", "g", ")", "/", "l", "a", "y", "o", "u", "t", ".", "t", "s", "x">>>>

\* the params of the directories from the app root to the page, given the URL
\* segments left: a (group) takes none, a [name] the next one, a catch-all all
RECURSIVE ExpectedParams(_, _)
ExpectedParams(chain, segments) ==
    IF chain = <<>> THEN {}
    ELSE LET d == Head(chain)
         IN  IF StartsWith(d, <<"(">>) THEN ExpectedParams(Tail(chain), segments)
             ELSE IF StartsWith(d, <<"[", "[", ".", ".", ".">>)
             THEN {<<SubSeq(d, 6, Len(d) - 2), "array", segments>>}
                      \cup ExpectedParams(Tail(chain), <<>>)
             ELSE IF StartsWith(d, <<"[", ".", ".", ".">>)
             THEN {<<SubSeq(d, 5, Len(d) - 1), "array", segments>>}
                      \cup ExpectedParams(Tail(chain), <<>>)
             ELSE IF StartsWith(d, <<"[">>)
             THEN {<<SubSeq(d, 2, Len(d) - 1), "string", <<Head(segments)>>>>}
                      \cup ExpectedParams(Tail(chain), Tail(segments))
             ELSE ExpectedParams(Tail(chain), Tail(segments))

StaticUrlOf(page) ==
    SelectSeq(Segments(Slice(DirOf(page), Len(appDir))), LAMBDA d : ~StartsWith(d, <<"(">>))
IsGroupedStaticPage(path) ==
    /\ \E i \in DOMAIN PageExtensions : EndsWith(path, PageName \o PageExtensions[i])
    /\ StartsWith(path, appDir \o <<"/">>)
    /\ \E d \in Range(Segments(DirOf(path))) : StartsWith(d, <<"(">>)
    /\ \A d \in Range(Segments(DirOf(path))) : ~StartsWith(d, <<"[">>)

\* C17: a page without dynamic directories that lies inside route groups is
\* what the URL of its path with the (group) directories deleted resolves to
\* (or another page of that same URL), with no params and with the layout of
\* every group crossed
C17_RouteGroupsTransparent ==
    resolved.resolver = "app" =>
        \A f \in project.files :
            (IsGroupedStaticPage(f) /\ StaticUrlOf(f) = Segments(resolved.pathname)) =>
                /\ resolved.page # Null
                /\ StaticUrlOf(resolved.page) = Segments(resolved.pathname)
                /\ resolved.route.params = {}
                /\ \A dir \in project.directories :
                      (/\ IsAbove(dir, DirOf(resolved.page))
                       /\ FirstExisting(WithExtensions(dir \o <<"/", "l", "a", "y", "o", "u", "t">>, PageExtensions)) # Null)
                          => \E i \in DOMAIN resolved.route.layouts :
                                DirOf(resolved.route.layouts[i]) = dir

\* C18: the URL of the directory that holds an optional catch-all resolves
\* (to the catch-all's page when the directory has no page of its own), and
\* so does every URL with further segments
C18_OptionalCatchAllMatchesEmpty ==
    (resolved.resolver = "app" /\ <<"/", "a", "p", "p", "/", "[", "[", ".", ".", ".", "o", "]", "]", "/", "p", "a", "g", "e", ".", "t", "s", "x">> \in project.files) =>
        /\ resolved.page # Null
        /\ (resolved.pathname = <<"/">> /\ <<"/", "a", "p", "p", "/", "p", "a", "g", "e", ".", "t", "s", "x">> \notin project.files)
              => resolved.page = <<"/", "a", "p", "p", "/", "[", "[", ".", ".", ".", "o", "]", "]", "/", "p", "a", "g", "e", ".", "t", "s", "x">>

\* the pages that can serve a path with one segment or more, from the kind of
\* highest priority to the lowest (a page inside nested groups is left to C17)
AppCandidates(pathname) ==
    CASE pathname = <<"/", "a">> ->
            <<<<"/", "a", "p", "p", "/", "(", "g", ")", "/", "a", "/", "p", "a", "g", "e", ".", "t", "s", "x">>, <<"/", "a", "p", "p", "/", "[", "i", "d", "]", "/", "p", "a", "g", "e", ".", "t", "s", "x">>, <<"/", "a", "p", "p", "/", "[", ".", ".", ".", "s", "]", "/", "p", "a", "g", "e", ".", "t", "s", "x">>,
              <<"/", "a", "p", "p", "/", "[", "[", ".", ".", ".", "o", "]", "]", "/", "p", "a", "g", "e", ".", "t", "s", "x">>>>
      [] pathname = <<"/", "a", "/", "b">> ->
            <<<<"/", "a", "p", "p", "/", "a", "/", "b", "/", "p", "a", "g", "e", ".", "t", "s", "x">>, <<"/", "a", "p", "p", "/", "[", ".", ".", ".", "s", "]", "/", "p", "a", "g", "e", ".", "t", "s", "x">>, <<"/", "a", "p", "p", "/", "[", "[", ".", ".", ".", "o", "]", "]", "/", "p", "a", "g", "e", ".", "t", "s", "x">>>>
      [] pathname = <<"/", "c">> ->
            <<<<"/", "a", "p", "p", "/", "[", "i", "d", "]", "/", "p", "a", "g", "e", ".", "t", "s", "x">>, <<"/", "a", "p", "p", "/", "[", ".", ".", ".", "s", "]", "/", "p", "a", "g", "e", ".", "t", "s", "x">>, <<"/", "a", "p", "p", "/", "[", "[", ".", ".", ".", "o", "]", "]", "/", "p", "a", "g", "e", ".", "t", "s", "x">>>>
      [] pathname = <<"/", "x", "/", "y">> ->
            <<<<"/", "a", "p", "p", "/", "[", ".", ".", ".", "s", "]", "/", "p", "a", "g", "e", ".", "t", "s", "x">>, <<"/", "a", "p", "p", "/", "[", "[", ".", ".", ".", "o", "]", "]", "/", "p", "a", "g", "e", ".", "t", "s", "x">>>>

\* C19: of the children that can consume a segment the one of the kind of
\* highest priority is taken (exact, group, [name], [...name], [[...name]]),
\* whatever the order of the directory listing
C19_PriorityOfKinds ==
    (resolved.resolver = "app" /\ resolved.pathname # <<"/">>) =>
        resolved.page = FirstExisting(AppCandidates(resolved.pathname))

\* the candidates of pages-mode resolution in the order of the claim
PageCandidates(pathname) ==
    CASE pathname = <<"/">> ->
            <<<<"/", "p", "a", "g", "e", "s", "/", "i", "n", "d", "e", "x", ".", "j", "s", "x">>, <<"/", "p", "a", "g", "e", "s", "/", "[", "i", "d", "]", "/", "i", "n", "d", "e", "x", ".", "j", "s", "x">>, <<"/", "p", "a", "g", "e", "s", "/", "[", "i", "d", "]", ".", "j", "s", "x">>,
              <<"/", "p", "a", "g", "e", "s", "/", "[", ".", ".", ".", "s", "]", ".", "j", "s", "x">>>>
      [] pathname = <<"/", "a">> ->
            <<<<"/", "p", "a", "g", "e", "s", "/", "a", ".", "j", "s", "x">>, <<"/", "p", "a", "g", "e", "s", "/", "a", ".", "t", "s", "x">>, <<"/", "p", "a", "g", "e", "s", "/", "a", "/", "i", "n", "d", "e", "x", ".", "j", "s", "x">>,
              <<"/", "p", "a", "g", "e", "s", "/", "[", "i", "d", "]", "/", "i", "n", "d", "e", "x", ".", "j", "s", "x">>, <<"/", "p", "a", "g", "e", "s", "/", "[", "i", "d", "]", ".", "j", "s", "x">>, <<"/", "p", "a", "g", "e", "s", "/", "[", ".", ".", ".", "s", "]", ".", "j", "s", "x">>>>
      [] pathname = <<"/", "a", "/", "b">> -> <<<<"/", "p", "a", "g", "e", "s", "/", "a", "/", "b", ".", "j", "s">>, <<"/", "p", "a", "g", "e", "s", "/", "[", ".", ".", ".", "s", "]", ".", "j", "s", "x">>>>
      [] pathname = <<"/", "c">> ->
            <<<<"/", "p", "a", "g", "e", "s", "/", "[", "i", "d", "]", "/", "i", "n", "d", "e", "x", ".", "j", "s", "x">>, <<"/", "p", "a", "g", "e", "s", "/", "[", "i", "d", "]", ".", "j", "s", "x">>, <<"/", "p", "a", "g", "e", "s", "/", "[", ".", ".", ".", "s", "]", ".", "j", "s", "x">>>>
      [] pathname = <<"/", "x", "/", "y">> -> <<<<"/", "p", "a", "g", "e", "s", "/", "[", ".", ".", ".", "s", "]", ".", "j", "s", "x">>>>

\* C20: pages-mode resolution returns the first existing candidate in the
\* order <P><ext>, <P>/index<ext>, then at each level the exact child, a
\* [name] directory, a [name].<ext> file, a [...name].<ext> file; and
\* not-found when there is none
C20_PagesCandidateOrder ==
    resolved.resolver = "pages" =>
        resolved.page = FirstExisting(PageCandidates(resolved.pathname))

\* the cache holds an entry for f whose hash is that of f's content
HashCurrent(cache, contents, f) ==
    cache[f] # NoEntry /\ cache[f].hash = simpleHash(contents[f])

\* an in-flight transform of f completes in this step
FinishesTransformOf(f) ==
    \E i \in DOMAIN inflight :
        /\ inflight[i].file = f
        /\ inflight' = RemoveAt(inflight, i)
        /\ transformCache'[f] \in
               {transformCache[f],
                [code |-> transformCode(inflight[i].content, f),
                 hash |-> inflight[i].hash]}

\* C23: a transform response for F carries X-Cache: hit if and only if,
\* when its request looked the cache up, the cache held an entry for F whose
\* hash was that of F's content then; requests for other files and watcher
\* events never change whether F hits; and an entry is never removed, only
\* overwritten by a transform of the same file
C23_HitIffStoredHashCurrent ==
    [][\A f \in Files :
        \* a request for f answered at once is a hit on a current entry
        /\ (lastResp'[f] # lastResp[f] /\ inflight' = inflight)
                => /\ lastResp'[f].resp.xcache = "hit"
                   /\ HashCurrent(transformCache, vfs, f)
        \* a request for f that suspends found no current entry
        /\ (Len(inflight') > Len(inflight) /\ inflight'[Len(inflight')].file = f)
                => ~HashCurrent(transformCache, vfs, f)
        \* and is not answered with a hit
        /\ (lastResp'[f] # lastResp[f] /\ inflight' # inflight)
                => /\ lastResp'[f].resp.xcache # "hit"
                   /\ FinishesTransformOf(f)
        \* whether f hits changes only with f's content or f's transform
        /\ (HashCurrent(transformCache', vfs', f) # HashCurrent(transformCache, vfs, f))
                => vfs'[f] # vfs[f] \/ FinishesTransformOf(f)
        \* entries are overwritten, never removed
        /\ transformCache'[f] # transformCache[f]
                => transformCache'[f] # NoEntry /\ FinishesTransformOf(f)
      ]_vars

\* a hit for one file after a miss of the other file and a watcher event
C23_Witness ==
    /\ lastResp["/pages/index.jsx"].resp.xcache = "hit"
    /\ transformCache["/pages/about.tsx"] # NoEntry
    /\ watch.log # <<>>

(***************************************************************************)
(* Claims about the HMR notifier                                           *)
(***************************************************************************)
\* the change events that name a file, in the order the watchers got them
FileChanges ==
    SelectSeq(watch.changes, LAMBDA c : c.eventType = "change" /\ c.name # <<>>)

AskedPathname(url) ==
    IF \E P \in RoutePaths : url = RouteInfoQuery(P)
    THEN CHOOSE P \in RoutePaths : url = RouteInfoQuery(P)
    ELSE IF url = <<"/", "_", "n", "e", "x", "t", "/", "r", "o", "u", "t", "e", "-", "i", "n", "f", "o", "?", "x", "=", "1", "&", "p", "a", "t", "h", "n", "a", "m", "e", "=", "/", "a", "/", "b">> THEN <<"/", "a", "/", "b">>
    ELSE <<"/">>

\* C25: a request to /_next/route-info?pathname=P is answered 200 with
\* {params, found}: found is true and params are the app-mode resolver's
\* bindings for P (those of the dynamic directories of its page) when P
\* resolves to a page, else found is false and params is empty; a missing
\* pathname parameter is treated as /
C25_RouteInfoIsResolution ==
    last.url \in RouteInfoUrls =>
        LET route == resolveAppRoute(AskedPathname(last.url))
            info == last.reply.info
        IN  /\ last.reply.statusCode = 200
            /\ last.reply.kind = "route-info"
            /\ info.found = (route.page # Null)
            /\ info.params = IF route.page # Null THEN route.params ELSE {}
            /\ info.found =>
                 info.params =
                     ExpectedParams(Segments(Slice(DirOf(route.page), Len(appDir))),
                                    Segments(AskedPathname(last.url)))

\* the params of a dynamic page, asked with a pathname parameter
C25_Witness ==
    /\ last.url = RouteInfoQuery(<<"/", "a">>)
    /\ last.reply.info = [params |-> {<<<<"i", "d">>, "string", <<<<"a">>>>>>}, found |-> TRUE]

(***************************************************************************)
(* Claims about the unary response of a legacy handler                     *)
(***************************************************************************)
\* what the claim expects of a handler that made these calls: the chunks
\* written, then the data ended with; the last status set; the headers set
ExpectedUnary(calls) ==
    LET writes == SelectSeq(calls, LAMBDA c : c.m = "write")
        ends == SelectSeq(calls, LAMBDA c : c.m = "end" /\ Truthy(c.a))
        statuses == SelectSeq(calls, LAMBDA c : c.m = "status")
    IN  [statusCode |-> IF statuses = <<>> THEN 200 ELSE statuses[Len(statuses)].b,
         headers |-> [n \in HeaderNames |->
                        IF n = "X-Custom" /\ \E i \in DOMAIN calls : calls[i].m = "setHeader"
                        THEN "1" ELSE NewHeaders[n]],
         body |-> [i \in DOMAIN writes |-> writes[i].a]
                      \o [i \in DOMAIN ends |-> ends[i].a]]

\* C26: for a legacy handler served through the unary handleRequest, the
\* response body is the concatenation, in call order, of every chunk passed
\* to res.write followed by the data passed to res.end, and the status and
\* headers are those set through res.status and res.setHeader: the response
\* taken from res is the one expected of the calls made until it was taken
C26_UnaryBodyIsWritesThenEnd ==
    (/\ mode = "unary"
     /\ pc = "done"
     /\ response \notin {NoResponse, NotFoundJson, ErrorJson}
     /\ \A i \in DOMAIN ops : ops[i].m \in {"write", "end", "status", "setHeader"})
        => \E k \in DOMAIN ops :
                /\ \E i \in 1 .. k : ops[i].m = "end"
                /\ response = ExpectedUnary(SubSeq(ops, 1, k))

(***************************************************************************)
(* Claims about the web-style handlers                                     *)
(***************************************************************************)
\* the module was loaded and the export of the method has been looked up
LookedUp == areq.pc \in {"called", "done"} /\ areq.prep = "ok"

\* C21: in app mode, a request with method M to a path that resolves to a
\* route file whose module exports no function named M, in upper or lower
\* case, is answered 405 with the JSON body {error: "Method M not allowed"},
\* and no exported function of the module is called
C21_MissingMethodGets405 ==
    (/\ LookedUp
     /\ areq.module[toUpperCase(areq.method)] # "function"
     /\ areq.module[toLowerCase(toUpperCase(areq.method))] # "function")
        => /\ areq.pc = "done"
           /\ areq.reply = MethodNotAllowed(areq.method)
           /\ areq.reply.statusCode = 405
           /\ areq.called = <<>>

\* POST to a module that exports only GET
C21_Witness ==
    /\ LookedUp
    /\ areq.method = "POST"
    /\ areq.module = [NoModule EXCEPT !["GET"] = "function"]
    /\ areq.reply.statusCode = 405

(***************************************************************************)
(* Claims about the transform cache under concurrent requests              *)
(***************************************************************************)
\* C22: after an edit of F the hash mismatch triggers exactly one
\* re-transform of F, also when several requests for F are in flight at the
\* same time: no two transforms of F run for one mismatch, with no edit
\* between them; and a cache entry is always a complete one, the code and
\* the hash of one content
C22_OneRetransformPerMismatch ==
    /\ \A i, j \in DOMAIN inflight :
            (/\ i < j
             /\ inflight[i].file = inflight[j].file
             /\ inflight[i].stale
             /\ ~inflight[i].edited)
                => ~inflight[j].stale
    /\ \A f \in Files :
            \/ transformCache[f] = NoEntry
            \/ \E c \in Contents :
                    transformCache[f] = [code |-> transformCode(c, f),
                                         hash |-> simpleHash(c)]

\* C27: the 30 s timeout also bounds a web-style handler: when the promise
\* the handler returned never settles, handleRequest still returns a 500
\* response
C27_NeverSettlingRouteHandlerGets500 ==
    (areq.pc = "called" /\ areq.promise = "never")
        ~> (areq.pc = "done" /\ areq.reply.statusCode = 500)

(***************************************************************************)
(* Claims about the streaming entry point                                  *)
(***************************************************************************)
\* C28: handleStreamingRequest strips the prefixes as handleRequest does: a
\* streaming request for /api/x behind the virtual prefix, the asset prefix
\* or the base path reaches the same handler as the streaming request for
\* /api/x
C28_StreamingStripsPrefixes ==
    \A form \in Forms \ {"plain"}, P \in PlainPaths :
        (/\ FormApplies(form)
         /\ StartsWith(P, <<"/", "a", "p", "i", "/">>)
         /\ last.url = Prefixed(form, P)
         /\ plain.url = P)
            => last.reply = plain.reply

(***************************************************************************)
(* Claims about the params and the VFS reads of a web-style handler        *)
(***************************************************************************)
\* the directories from the app root to the route file of the request
RouteChain == Segments(Slice(DirOf(areq.file), Len(appDir)))

\* C29: a handler whose route file is reached through dynamic directories
\* is called with the bindings of exactly those dynamic segments, whether or
\* not a page file exists in the directory of the route file
C29_RouteHandlerParams ==
    (/\ areq.called # <<>>
     /\ areq.writes = 0
     /\ \E i \in DOMAIN RouteChain : StartsWith(RouteChain[i], <<"[">>))
        => areq.params = ExpectedParams(RouteChain, Segments(areq.pathname))

\* C30: within one handleRequest call, every VFS read the dispatcher makes
\* (rule matching, handler file resolution, source read, route-param
\* resolution) observes one and the same VFS state, also when another
\* request's handler writes to the VFS while this request is suspended
C30_OneVfsStatePerRequest ==
    \A i, j \in DOMAIN areq.seen : areq.seen[i] = areq.seen[j]

(***************************************************************************)
(* Claims about the app shell                                              *)
(***************************************************************************)
\* C31: for every path P that resolveAppRoute resolves to a page file F, the
\* request of the lazy-load URL the client router builds for P is answered
\* with status 200 and the transform of F, also when P crosses a dynamic
\* segment or a route group
C31_LazyLoadUrlServesResolvedPage ==
    LET P == clientRoute(router.pageReply.path)
    IN  (router.pageReply.path # Null /\ resolveAppRoute(P) # NoRoute)
            => /\ router.pageReply.statusCode = 200
               /\ router.pageReply.kind = "transformed"
               /\ router.pageReply.file = resolveAppRoute(P).page

\* C32: for every resolved app-mode route, the layout modules the client
\* router has loaded for the path are exactly the resolver's layouts of that
\* path, in the same outermost-first order, including the layouts of route
\* groups and of dynamic-segment directories
C32_ClientLayoutsAreResolverLayouts ==
    LET P == clientRoute(router.pageReply.path)
    IN  (router.pageReply.path # Null /\ resolveAppRoute(P) # NoRoute)
            => router.layouts = resolveAppRoute(P).layouts

(***************************************************************************)
(* Claims about the two app-mode resolvers                                 *)
(***************************************************************************)
\* C33: the route-handler resolver is the page resolver with route.<ext> in
\* place of page.<ext>: it returns the route file of directory D exactly when
\* the page resolver, on the same tree with the route files named as pages,
\* returns the page of D.  On a tree where the directories with a route file
\* are the directories with a page, that is: both resolvers find nothing, or
\* both find their file in the same directory.
C33_RouteResolverIsPageResolver ==
    resolved.resolver = "route"
        => IF resolved.route = NoRoute THEN resolved.page = Null
           ELSE resolved.page # Null /\ DirOf(resolved.page) = DirOf(resolved.route.page)

\* the directories at or above the page's directory, inside the app root,
\* that hold a file <name>.<ext>
ConventionDirectories(page, name) ==
    {dir \in project.directories :
        /\ IsAbove(dir, DirOf(page))
        /\ IsAbove(appDir, dir)
        /\ \E i \in DOMAIN PageExtensions :
                (dir \o <<"/">> \o name \o PageExtensions[i]) \in project.files}

NearestConvention(page, name, recorded) ==
    LET dirs == ConventionDirectories(page, name)
        nearest == CHOOSE dir \in dirs : \A other \in dirs : Len(other) <= Len(dir)
    IN  IF dirs = {} THEN recorded = Null
        ELSE /\ recorded \in project.files
             /\ \E i \in DOMAIN PageExtensions :
                    recorded = nearest \o <<"/">> \o name \o PageExtensions[i]

\* C34: for every resolved app-mode route and each of loading, error and
\* not-found, the recorded convention file is the one of the nearest
\* directory at or above the page's directory (up to and including the app
\* root) that holds such a file, and is absent exactly when there is none
C34_NearestConventionFiles ==
    Resolved("app")
        => /\ NearestConvention(resolved.page, <<"l", "o", "a", "d", "i", "n", "g">>, resolved.route.loading)
           /\ NearestConvention(resolved.page, <<"e", "r", "r", "o", "r">>, resolved.route.error)
           /\ NearestConvention(resolved.page, <<"n", "o", "t", "-", "f", "o", "u", "n", "d">>, resolved.route.notFound)

\* a page two levels down whose loading file is the one of its parent, not
\* the root's, and whose not-found file is the root's
C34_Witness ==
    /\ Resolved("app")
    /\ resolved.page = <<"/", "a", "p", "p", "/", "a", "/", "b", "/", "p", "a", "g", "e", ".", "t", "s", "x">>
    /\ resolved.route.loading = <<"/", "a", "p", "p", "/", "a", "/", "l", "o", "a", "d", "i", "n", "g", ".", "t", "s", "x">>
    /\ <<"/", "a", "p", "p", "/", "l", "o", "a", "d", "i", "n", "g", ".", "t", "s", "x">> \in project.files
    /\ resolved.route.notFound = <<"/", "a", "p", "p", "/", "n", "o", "t", "-", "f", "o", "u", "n", "d", ".", "t", "s", "x">>
    /\ resolved.route.error = Null

(***************************************************************************)
(* Claims about the response objects' headersSent and the transform errors *)
(***************************************************************************)
\* C35: res.headersSent, as the handler reads it, is false before the first
\* write and true after it, in the unary and in the streaming response
\* object; in the streaming one it is true from the moment onStart has been
\* called
C35_HeadersSentTracksFirstWrite ==
    /\ res.headersSentProp <=> (\E i \in DOMAIN ops : ops[i].m = "write")
    /\ mode = "streaming" /\ hlive
            => (res.headersSentProp <=> (\E i \in DOMAIN cb : cb[i].ev = "start"))

HmrIdle == hmr.timers = 0 /\ hmr.batches = <<>>

\* C37: with React Refresh available, every JS update message (path,
\* timestamp) is eventually applied: once the client has nothing left to do,
\* the module was imported with that timestamp or with a later one received
\* for the same path, or the page was reloaded; an update that arrives while
\* a batch is being imported is not dropped
C37_EveryJsUpdateApplied ==
    (hmr.ready /\ hmr.refresh /\ HmrIdle /\ ~hmr.reloaded)
        => \A i \in DOMAIN hmr.received :
              \E j \in DOMAIN hmr.applied :
                  /\ hmr.applied[j].path = hmr.received[i].path
                  /\ hmr.applied[j].ts >= hmr.received[i].ts

\* C38: after any sequence of popstate navigations whose page, layout and
\* param loads complete in any order, the page, the layouts and the window
\* route params finally displayed are those of the last navigated path: a
\* slower load of an earlier path never overwrites a later navigation's
C38_LastNavigationWins ==
    (router # NoRouter /\ router.navigations > 0 /\ router.loads = <<>>)
        => /\ loadPage(router.path) # Null => router.Page = loadPage(router.path)
           /\ router.layouts = loadLayouts(router.path)
           /\ router.params = extractRouteParams(router.path)

\* C39: after stop() no later file change emits an HMR update to the
\* emitter or posts one to the target window, whatever startWatching,
\* setHMRTarget and stop calls came before
C39_NoHmrEventAfterStop ==
    [][watch.stopped => /\ watch'.log = watch.log
                        /\ watch'.posted = watch.posted]_vars

\* C40: a transform response that carries X-Cache: hit has the body that
\* transforming the file's current content gives: a hit never serves output
\* produced from bytes other than those now in the VFS
C40_HitServesTransformOfCurrentContent ==
    [][(nReq' = nReq + 1 /\ inflight' = inflight) =>
          \A f \in Files :
              (lastResp'[f] # lastResp[f] /\ lastResp'[f].resp.xcache = "hit")
                  => lastResp'[f].resp.body = transformCode(vfs[f], f)]_vars

====
